---- MODULE Spec2Model ----
(***************************************************************************)
(* NFL playoff bracket: the pick codec of lib/url-encoding                 *)
(* (encodeBracketPicks, decodeBracketPicks, applyPicksToFreshBracket), the *)
(* click handlers of the Matchup and SuperBowl components, and the bracket *)
(* engine they call (playoff-rules / BracketContext).                      *)
(*                                                                         *)
(* Index conventions: the 13 winner codes are a function on 0..12, as in   *)
(* the source.  The tuples wildCard and divisional are TLA+ sequences, so  *)
(* source wildCard[k] is wildCard[k+1] here.                               *)
(***************************************************************************)
EXTENDS Integers, Sequences, FiniteSets, TLC

VARIABLES
  bracket,       \* the current BracketState of the page
  fresh,         \* the local bracket built inside applyPicksToFreshBracket
  pc,            \* next statement of applyPicksToFreshBracket, or a page state
  codes,         \* the winner codes read by the last apply statement
  token,         \* an encoded picks string (sequence of characters)
  decoded,       \* outcome of decodeBracketPicks(token)
  reloaded,      \* BracketState rebuilt from token
  last,          \* the last click / engine call and what it did
  nOps,          \* number of clicks and engine calls made so far
  gamesStarted,  \* ids of the matchups whose real game has started
  params,        \* the b, name and view parameters a link was built from
  query,         \* the query string of a link (sequence of characters)
  urlState,      \* result of parseUrlParams / useUrlState for the link
  selectedGame,  \* GameDialogProvider: the game whose dialog is open, or null
  activeTab,     \* GameDialogProvider: active tab of the dialog
  isInitialized, \* GameDialogProvider: the URL has been processed
  isHydrated,    \* useDeepLink: the URL has been read on the client
  deepLink,      \* useDeepLink: state (gameId, tab), named urlState there
  urlUpdates,    \* useDeepLink: URL writes issued and not yet in deepLink
  live,          \* useBracket: matchups with a live game / a live result
  effectDue,     \* a dependency of the URL sync effect changed since it ran
  openedGame,    \* the game last opened with openGameDialog, while it holds
  lastStep,      \* the last dialog step: what it saw and what it called
  nEvents        \* number of user, navigation and live-data events so far

dialogVars == <<selectedGame, activeTab, isInitialized, isHydrated, deepLink,
                urlUpdates, live, effectDue, openedGame, lastStep, nEvents>>

bracketVars == <<bracket, fresh, pc, codes, token, decoded, reloaded, last,
                 nOps, gamesStarted, params, query, urlState>>

vars == <<bracketVars, dialogVars>>

(***************************************************************************)
(* Teams and matchups                                                      *)
(***************************************************************************)
Conferences == {"AFC", "NFC"}

\* null team slot / null winner
Null == [conference |-> "none", seed |-> 0]

Team(conference, seed) == [conference |-> conference, seed |-> seed]

Teams == {Team(c, s) : c \in Conferences, s \in 1..7}

\* team.id: conference and seed identify a team
TeamId(team) == <<team.conference, team.seed>>

Matchup(id, home, away) ==
  [id |-> id, homeTeam |-> home, awayTeam |-> away, winner |-> Null]

\* an absent matchup (Matchup | null)
NoMatchup == [id |-> "", absent |-> TRUE]

ConfPrefix(conference) == IF conference = "AFC" THEN "afc" ELSE "nfc"

\* Fresh conference bracket: wild card 2v7, 3v6, 4v5 (seed 1 has the bye),
\* every later round empty.
createInitialConference(conference) ==
  LET p == ConfPrefix(conference) IN
  [ wildCard |->
      << Matchup(p \o "-wc-1", Team(conference, 2), Team(conference, 7)),
         Matchup(p \o "-wc-2", Team(conference, 3), Team(conference, 6)),
         Matchup(p \o "-wc-3", Team(conference, 4), Team(conference, 5)) >>,
    divisional |->
      << Matchup(p \o "-div-1", Null, Null),
         Matchup(p \o "-div-2", Null, Null) >>,
    championship |-> Matchup(p \o "-champ", Null, Null) ]

createInitialBracket(userName) ==
  [ afc |-> createInitialConference("AFC"),
    nfc |-> createInitialConference("NFC"),
    superBowl |-> Matchup("super-bowl", Null, Null),
    userName |-> userName,
    isComplete |-> FALSE ]

(***************************************************************************)
(* Derivation rules (playoff-rules)                                        *)
(***************************************************************************)
NoPairing == [home |-> Null, away |-> Null]

\* Re-seeding: seed 1 hosts the lowest remaining seed (highest number) of the
\* three wild-card winners, the other two meet with the better seed at home.
\* With a winner missing the pairing is not determined: every slot stays null.
calculateDivisionalMatchups(conference, wildCardWinners) ==
  IF \E k \in 1..3 : wildCardWinners[k] = Null
  THEN [matchup1 |-> NoPairing, matchup2 |-> NoPairing]
  ELSE LET ws   == {wildCardWinners[k] : k \in 1..3}
           low  == CHOOSE w \in ws : \A v \in ws : v.seed <= w.seed
           best == CHOOSE w \in ws : \A v \in ws : w.seed <= v.seed
           mid  == CHOOSE w \in ws : w # low /\ w # best
       IN [ matchup1 |-> [home |-> Team(conference, 1), away |-> low],
            matchup2 |-> [home |-> best, away |-> mid] ]

\* The two divisional winners meet, the better seed at home; an absent
\* winner leaves its slot absent.
calculateChampionshipMatchup(divisionalWinners) ==
  LET a == divisionalWinners[1]
      b == divisionalWinners[2]
  IN IF a # Null /\ b # Null /\ b.seed < a.seed
     THEN [home |-> b, away |-> a]
     ELSE [home |-> a, away |-> b]

\* Fixed matchup order of the codec, indices 0..12.
getAllMatchupsOrdered(b) ==
  [ i \in 0..12 |->
      CASE i \in 0..2 -> b.afc.wildCard[i + 1]
        [] i \in 3..5 -> b.nfc.wildCard[i - 2]
        [] i \in 6..7 -> b.afc.divisional[i - 5]
        [] i \in 8..9 -> b.nfc.divisional[i - 7]
        [] i = 10     -> b.afc.championship
        [] i = 11     -> b.nfc.championship
        [] OTHER      -> b.superBowl ]

isBracketComplete(b) ==
  \A i \in 0..12 : getAllMatchupsOrdered(b)[i].winner # Null

(***************************************************************************)
(* 32-bit integer arithmetic of the JavaScript bitwise operators           *)
(***************************************************************************)
\* Values are two's-complement integers in -2^31 .. 2^31 - 1.
\* bit k of a (k in 0..31); bit 31 is the sign
Bit(a, k) == IF k = 31 THEN (IF a < 0 THEN 1 ELSE 0) ELSE (a \div (2 ^ k)) % 2

\* the byte made of bits k0 .. k0+7 of the bit vector f
ByteOfBits(f, k0) ==
  f[k0] + 2 * f[k0 + 1] + 4 * f[k0 + 2] + 8 * f[k0 + 3] + 16 * f[k0 + 4]
    + 32 * f[k0 + 5] + 64 * f[k0 + 6] + 128 * f[k0 + 7]

\* the signed 32-bit integer whose bits are f[0] .. f[31]
FromBits(f) ==
  ByteOfBits(f, 0) + 256 * ByteOfBits(f, 8) + 65536 * ByteOfBits(f, 16)
    + 16777216 * (ByteOfBits(f, 24) - 256 * f[31])

\* a | b
BitOr(a, b) ==
  FromBits([k \in 0..31 |-> IF Bit(a, k) = 1 \/ Bit(b, k) = 1 THEN 1 ELSE 0])

\* a & b
BitAnd(a, b) ==
  FromBits([k \in 0..31 |-> IF Bit(a, k) = 1 /\ Bit(b, k) = 1 THEN 1 ELSE 0])

\* a << n: the shift count is taken modulo 32, the bits shifted out are lost
Shl(a, n) ==
  FromBits([k \in 0..31 |-> IF k < n % 32 THEN 0 ELSE Bit(a, k - (n % 32))])

\* a >> n (sign-propagating)
Sar(a, n) ==
  FromBits([k \in 0..31 |->
              IF k + (n % 32) > 31 THEN Bit(a, 31) ELSE Bit(a, k + (n % 32))])

(***************************************************************************)
(* Base64 (btoa / atob).  A string is a sequence of one-character strings. *)
(***************************************************************************)
Base64Alphabet ==
  << "A", "B", "C", "D", "E", "F", "G", "H", "I", "J", "K", "L", "M",
     "N", "O", "P", "Q", "R", "S", "T", "U", "V", "W", "X", "Y", "Z",
     "a", "b", "c", "d", "e", "f", "g", "h", "i", "j", "k", "l", "m",
     "n", "o", "p", "q", "r", "s", "t", "u", "v", "w", "x", "y", "z",
     "0", "1", "2", "3", "4", "5", "6", "7", "8", "9", "+", "/" >>

Whitespace == {" ", "\t", "\n", "\f", "\r"}

B64Index(c) == (CHOOSE k \in 1..64 : Base64Alphabet[k] = c) - 1

IsB64Char(c) == \E k \in 1..64 : Base64Alphabet[k] = c

\* String.prototype.replace(/x/g, y) for a one-character pattern
ReplaceAll(s, from, to) ==
  [k \in 1..Len(s) |-> IF s[k] = from THEN to ELSE s[k]]

\* String.prototype.replace(/=+$/, "")
RECURSIVE StripTrailingPad(_)
StripTrailingPad(s) ==
  IF Len(s) > 0 /\ s[Len(s)] = "="
  THEN StripTrailingPad(SubSeq(s, 1, Len(s) - 1))
  ELSE s

\* btoa of the binary string whose char codes are the given bytes
RECURSIVE btoa(_)
btoa(bytes) ==
  IF Len(bytes) = 0 THEN << >>
  ELSE IF Len(bytes) = 1 THEN
    << Base64Alphabet[(bytes[1] \div 4) + 1],
       Base64Alphabet[((bytes[1] % 4) * 16) + 1], "=", "=" >>
  ELSE IF Len(bytes) = 2 THEN
    << Base64Alphabet[(bytes[1] \div 4) + 1],
       Base64Alphabet[((bytes[1] % 4) * 16 + bytes[2] \div 16) + 1],
       Base64Alphabet[((bytes[2] % 16) * 4) + 1], "=" >>
  ELSE
    << Base64Alphabet[(bytes[1] \div 4) + 1],
       Base64Alphabet[((bytes[1] % 4) * 16 + bytes[2] \div 16) + 1],
       Base64Alphabet[((bytes[2] % 16) * 4 + bytes[3] \div 64) + 1],
       Base64Alphabet[(bytes[3] % 64) + 1] >>
    \o btoa(SubSeq(bytes, 4, Len(bytes)))

\* the bytes of a run of base64 characters (forgiving-base64: the bits left
\* over after the last whole byte are discarded)
RECURSIVE B64Bytes(_)
B64Bytes(s) ==
  IF Len(s) < 2 THEN << >>
  ELSE LET v1 == B64Index(s[1])
           v2 == B64Index(s[2])
       IN IF Len(s) = 2 THEN << v1 * 4 + v2 \div 16 >>
          ELSE LET v3 == B64Index(s[3]) IN
            IF Len(s) = 3
            THEN << v1 * 4 + v2 \div 16, (v2 % 16) * 16 + v3 \div 4 >>
            ELSE << v1 * 4 + v2 \div 16, (v2 % 16) * 16 + v3 \div 4,
                    (v3 % 4) * 64 + B64Index(s[4]) >>
                 \o B64Bytes(SubSeq(s, 5, Len(s)))

\* atob: [threw, bytes].  Whitespace is removed, one or two trailing "=" are
\* removed when the length is a multiple of 4, and the call throws when the
\* remaining length is 1 mod 4 or a character is outside the base64 alphabet.
atob(data) ==
  LET noWs  == SelectSeq(data, LAMBDA c : c \notin Whitespace)
      n     == Len(noWs)
      unpad == IF n > 0 /\ n % 4 = 0 /\ noWs[n] = "="
               THEN IF noWs[n - 1] = "="
                    THEN SubSeq(noWs, 1, n - 2)
                    ELSE SubSeq(noWs, 1, n - 1)
               ELSE noWs
  IN IF Len(unpad) % 4 = 1 \/ \E k \in 1..Len(unpad) : ~IsB64Char(unpad[k])
     THEN [threw |-> TRUE, bytes |-> << >>]
     ELSE [threw |-> FALSE, bytes |-> B64Bytes(unpad)]

(***************************************************************************)
(* Pick codec (lib/url-encoding)                                           *)
(***************************************************************************)
WinnerCodes == {0, 1, 2}

\* faulty variant of getWinnerCode: the codes of home and away exchanged
getWinnerCode_swapped(matchup) ==
  IF matchup = NoMatchup THEN 0
  ELSE IF matchup.winner = Null THEN 0
  ELSE IF matchup.homeTeam # Null
          /\ TeamId(matchup.winner) = TeamId(matchup.homeTeam) THEN 2
  ELSE IF matchup.awayTeam # Null
          /\ TeamId(matchup.winner) = TeamId(matchup.awayTeam) THEN 1
  ELSE 0

\* faulty variant of getWinnerCode: a winner that is neither team counts as
\* the away team
getWinnerCode_noFallback(matchup) ==
  IF matchup = NoMatchup THEN 0
  ELSE IF matchup.winner = Null THEN 0
  ELSE IF matchup.homeTeam # Null
          /\ TeamId(matchup.winner) = TeamId(matchup.homeTeam) THEN 1
  ELSE 2

\* 0 = no pick, 1 = home team, 2 = away team
getWinnerCode(matchup) ==
  IF matchup = NoMatchup THEN 0
  ELSE IF matchup.winner = Null THEN 0
  ELSE IF matchup.homeTeam # Null
          /\ TeamId(matchup.winner) = TeamId(matchup.homeTeam) THEN 1
  ELSE IF matchup.awayTeam # Null
          /\ TeamId(matchup.winner) = TeamId(matchup.awayTeam) THEN 2
  ELSE 0

\* packed |= codes[i] << (i * 2), for i = from .. 12.  Each iteration's value
\* of packed is bound as a value before the next iteration runs.
RECURSIVE PackFrom(_, _, _)
PackFrom(cs, i, packed) ==
  IF i > 12 THEN packed
  ELSE CHOOSE result \in
         { PackFrom(cs, i + 1, next) :
             next \in {BitOr(packed, Shl(cs[i], i * 2))} } : TRUE

packCodes(cs) == PackFrom(cs, 0, 0)

\* faulty variant of packedBytes: most significant byte first
packedBytes_bigEndian(packed) ==
  << BitAnd(Sar(packed, 24), 255), BitAnd(Sar(packed, 16), 255),
     BitAnd(Sar(packed, 8), 255), BitAnd(Sar(packed, 0), 255) >>

\* the 4 bytes of the packed value, byte 0 first
packedBytes(packed) ==
  << BitAnd(Sar(packed, 0), 255), BitAnd(Sar(packed, 8), 255),
     BitAnd(Sar(packed, 16), 255), BitAnd(Sar(packed, 24), 255) >>

bracketCodes(b) == [i \in 0..12 |-> getWinnerCode(getAllMatchupsOrdered(b)[i])]

\* faulty variant of encodeBracketPicks: the "=" padding is kept
encodeBracketPicks_padded(b) ==
  LET bytes == packedBytes(packCodes(bracketCodes(b)))
  IN ReplaceAll(ReplaceAll(btoa(bytes), "+", "-"), "/", "_")

encodeBracketPicks(b) ==
  LET bytes == packedBytes(packCodes(bracketCodes(b)))
  IN StripTrailingPad(ReplaceAll(ReplaceAll(btoa(bytes), "+", "-"), "/", "_"))

\* while (base64.length % 4) base64 += "="
RECURSIVE PadToFour(_)
PadToFour(s) == IF Len(s) % 4 = 0 THEN s ELSE PadToFour(Append(s, "="))

\* faulty variant of ByteAt: the bytes are taken one position too early
ByteAt_offByOne(bytes, k) == IF 1 <= k /\ k <= Len(bytes) THEN bytes[k] ELSE 0

\* bytes[k] of a Uint8Array used as an operand of | or <<: a read past the
\* end yields undefined, which the operator converts to 0
ByteAt(bytes, k) == IF k + 1 <= Len(bytes) THEN bytes[k + 1] ELSE 0

\* [threw, codes]: threw is TRUE when atob throws, else codes is the array of
\* 13 two-bit fields
decodeBracketPicks(encoded) ==
  LET base64 == PadToFour(ReplaceAll(ReplaceAll(encoded, "-", "+"), "_", "/"))
      binary == atob(base64)
  IN IF binary.threw THEN [threw |-> TRUE, codes |-> << >>]
     ELSE LET bytes  == binary.bytes
              packed == BitOr(BitOr(BitOr(ByteAt(bytes, 0),
                                          Shl(ByteAt(bytes, 1), 8)),
                                    Shl(ByteAt(bytes, 2), 16)),
                              Shl(ByteAt(bytes, 3), 24))
          IN [threw |-> FALSE,
              codes |-> [i \in 0..12 |-> BitAnd(Sar(packed, i * 2), 3)]]

(***************************************************************************)
(* applyPicksToFreshBracket, statement by statement                        *)
(***************************************************************************)
\* every value of a two-bit field
FieldValues == 0..3

\* faulty variant of applyCode: when the picked slot is empty the team of the
\* other slot wins
applyCode_otherTeam(matchup, code) ==
  IF code = 0 THEN matchup
  ELSE IF code = 1
       THEN [matchup EXCEPT !.winner = IF matchup.homeTeam # Null
                                       THEN matchup.homeTeam
                                       ELSE matchup.awayTeam]
       ELSE [matchup EXCEPT !.winner = IF matchup.awayTeam # Null
                                       THEN matchup.awayTeam
                                       ELSE matchup.homeTeam]

applyCode(matchup, code) ==
  IF code = 0 THEN matchup
  ELSE [matchup EXCEPT !.winner =
          IF code = 1 THEN matchup.homeTeam ELSE matchup.awayTeam]

withTeams(matchup, pairing) ==
  [matchup EXCEPT !.homeTeam = pairing.home, !.awayTeam = pairing.away]

winnersOf(matchups) == [k \in 1..Len(matchups) |-> matchups[k].winner]

\* bracket.afc.wildCard = [...]; bracket.nfc.wildCard = [...]
applyWildCardPicks(b, cs) ==
  [b EXCEPT
     !.afc.wildCard = << applyCode(b.afc.wildCard[1], cs[0]),
                         applyCode(b.afc.wildCard[2], cs[1]),
                         applyCode(b.afc.wildCard[3], cs[2]) >>,
     !.nfc.wildCard = << applyCode(b.nfc.wildCard[1], cs[3]),
                         applyCode(b.nfc.wildCard[2], cs[4]),
                         applyCode(b.nfc.wildCard[3], cs[5]) >>]

\* faulty variant of deriveAfcDivisional: home and away exchanged
deriveAfcDivisional_swapped(b) ==
  LET afcDiv == calculateDivisionalMatchups("AFC", winnersOf(b.afc.wildCard))
  IN [b EXCEPT !.afc.divisional =
        << withTeams(b.afc.divisional[1],
                     [home |-> afcDiv.matchup1.away,
                      away |-> afcDiv.matchup1.home]),
           withTeams(b.afc.divisional[2],
                     [home |-> afcDiv.matchup2.away,
                      away |-> afcDiv.matchup2.home]) >>]

deriveAfcDivisional(b) ==
  LET afcDiv == calculateDivisionalMatchups("AFC", winnersOf(b.afc.wildCard))
  IN [b EXCEPT !.afc.divisional =
        << withTeams(b.afc.divisional[1], afcDiv.matchup1),
           withTeams(b.afc.divisional[2], afcDiv.matchup2) >>]

applyAfcDivisionalPicks(b, cs) ==
  [b EXCEPT !.afc.divisional = << applyCode(b.afc.divisional[1], cs[6]),
                                  applyCode(b.afc.divisional[2], cs[7]) >>]

deriveNfcDivisional(b) ==
  LET nfcDiv == calculateDivisionalMatchups("NFC", winnersOf(b.nfc.wildCard))
  IN [b EXCEPT !.nfc.divisional =
        << withTeams(b.nfc.divisional[1], nfcDiv.matchup1),
           withTeams(b.nfc.divisional[2], nfcDiv.matchup2) >>]

applyNfcDivisionalPicks(b, cs) ==
  [b EXCEPT !.nfc.divisional = << applyCode(b.nfc.divisional[1], cs[8]),
                                  applyCode(b.nfc.divisional[2], cs[9]) >>]

\* faulty variant of deriveAfcChampionship: the slots are left as they were
deriveAfcChampionship_skipped(b) == b

deriveAfcChampionship(b) ==
  LET afcChamp == calculateChampionshipMatchup(winnersOf(b.afc.divisional))
  IN [b EXCEPT !.afc.championship = withTeams(b.afc.championship, afcChamp)]

applyAfcChampionshipPick(b, cs) ==
  [b EXCEPT !.afc.championship = applyCode(b.afc.championship, cs[10])]

deriveNfcChampionship(b) ==
  LET nfcChamp == calculateChampionshipMatchup(winnersOf(b.nfc.divisional))
  IN [b EXCEPT !.nfc.championship = withTeams(b.nfc.championship, nfcChamp)]

applyNfcChampionshipPick(b, cs) ==
  [b EXCEPT !.nfc.championship = applyCode(b.nfc.championship, cs[11])]

\* faulty variant of deriveSuperBowl: the slots are left as they were
deriveSuperBowl_skipped(b) == b

deriveSuperBowl(b) ==
  [b EXCEPT !.superBowl =
     withTeams(b.superBowl, [home |-> b.afc.championship.winner,
                             away |-> b.nfc.championship.winner])]

\* faulty variant of applySuperBowlPick: the winner is taken from the teams of
\* the AFC championship
applySuperBowlPick_fromChampionship(b, cs) ==
  [b EXCEPT !.superBowl.winner = applyCode(b.afc.championship, cs[12]).winner]

applySuperBowlPick(b, cs) ==
  [b EXCEPT !.superBowl = applyCode(b.superBowl, cs[12])]

\* faulty variant of updateCompletion: the flag is left as it was
updateCompletion_trusted(b) == b

updateCompletion(b) == [b EXCEPT !.isComplete = isBracketComplete(b)]

\* the whole function: the statements above in source order
applyPicksToFreshBracket(cs, userName) ==
  LET b0  == createInitialBracket(userName)
      b1  == applyWildCardPicks(b0, cs)
      b2  == applyAfcDivisionalPicks(deriveAfcDivisional(b1), cs)
      b3  == applyNfcDivisionalPicks(deriveNfcDivisional(b2), cs)
      b4  == applyAfcChampionshipPick(deriveAfcChampionship(b3), cs)
      b5  == applyNfcChampionshipPick(deriveNfcChampionship(b4), cs)
      b6  == applySuperBowlPick(deriveSuperBowl(b5), cs)
  IN updateCompletion(b6)

(***************************************************************************)
(* Bracket state engine (BracketContext / playoff-rules): selectWinner,    *)
(* clearWinner, isMatchupLocked                                            *)
(***************************************************************************)
\* index of the matchup with this id in the codec order, -1 when unknown
indexOfMatchup(b, matchupId) ==
  IF \E i \in 0..12 : getAllMatchupsOrdered(b)[i].id = matchupId
  THEN CHOOSE i \in 0..12 : getAllMatchupsOrdered(b)[i].id = matchupId
  ELSE -1

conferenceOfIndex(i) ==
  IF i \in {0, 1, 2, 6, 7, 10} THEN "AFC"
  ELSE IF i \in {3, 4, 5, 8, 9, 11} THEN "NFC"
  ELSE "superBowl"

\* 1 wild card, 2 divisional, 3 championship, 4 Super Bowl
roundOfIndex(i) ==
  IF i <= 5 THEN 1 ELSE IF i <= 9 THEN 2 ELSE IF i <= 11 THEN 3 ELSE 4

setMatchup(b, i, m) ==
  CASE i \in 0..2 -> [b EXCEPT !.afc.wildCard[i + 1] = m]
    [] i \in 3..5 -> [b EXCEPT !.nfc.wildCard[i - 2] = m]
    [] i \in 6..7 -> [b EXCEPT !.afc.divisional[i - 5] = m]
    [] i \in 8..9 -> [b EXCEPT !.nfc.divisional[i - 7] = m]
    [] i = 10     -> [b EXCEPT !.afc.championship = m]
    [] i = 11     -> [b EXCEPT !.nfc.championship = m]
    [] OTHER      -> [b EXCEPT !.superBowl = m]

bothSlotsPopulated(matchup) ==
  matchup.homeTeam # Null /\ matchup.awayTeam # Null

\* faulty variant of rederive: a stale winner is left in place
rederive_stale(matchup, pairing) == withTeams(matchup, pairing)

\* A re-derived matchup takes the new pairing; its winner stays only while
\* the matchup is still pickable and the winner is one of its two teams.
rederive(matchup, pairing) ==
  LET m == withTeams(matchup, pairing)
  IN IF m.winner # Null /\ bothSlotsPopulated(m)
        /\ (TeamId(m.winner) = TeamId(m.homeTeam)
            \/ TeamId(m.winner) = TeamId(m.awayTeam))
     THEN m
     ELSE [m EXCEPT !.winner = Null]

recomputeDivisional(b, conference) ==
  IF conference = "AFC"
  THEN LET p == calculateDivisionalMatchups("AFC", winnersOf(b.afc.wildCard))
       IN [b EXCEPT !.afc.divisional =
             << rederive(b.afc.divisional[1], p.matchup1),
                rederive(b.afc.divisional[2], p.matchup2) >>]
  ELSE LET p == calculateDivisionalMatchups("NFC", winnersOf(b.nfc.wildCard))
       IN [b EXCEPT !.nfc.divisional =
             << rederive(b.nfc.divisional[1], p.matchup1),
                rederive(b.nfc.divisional[2], p.matchup2) >>]

recomputeChampionship(b, conference) ==
  IF conference = "AFC"
  THEN [b EXCEPT !.afc.championship =
          rederive(b.afc.championship,
                   calculateChampionshipMatchup(winnersOf(b.afc.divisional)))]
  ELSE [b EXCEPT !.nfc.championship =
          rederive(b.nfc.championship,
                   calculateChampionshipMatchup(winnersOf(b.nfc.divisional)))]

recomputeSuperBowl(b) ==
  [b EXCEPT !.superBowl =
     rederive(b.superBowl, [home |-> b.afc.championship.winner,
                            away |-> b.nfc.championship.winner])]

\* recompute every round after matchup i in its lineage, then isComplete
recomputeDownstream(b, i) ==
  LET r  == roundOfIndex(i)
      c  == conferenceOfIndex(i)
      b1 == IF r <= 1 THEN recomputeDivisional(b, c) ELSE b
      b2 == IF r <= 2 THEN recomputeChampionship(b1, c) ELSE b1
      b3 == IF r <= 3 THEN recomputeSuperBowl(b2) ELSE b2
  IN [b3 EXCEPT !.isComplete = isBracketComplete(b3)]

\* no-op when the id is unknown, a team slot is absent or the team is not one
\* of the matchup's two teams
selectWinner(b, matchupId, team) ==
  LET i == indexOfMatchup(b, matchupId) IN
  IF i = -1 THEN b
  ELSE LET m == getAllMatchupsOrdered(b)[i] IN
    IF ~bothSlotsPopulated(m) THEN b
    ELSE IF TeamId(team) # TeamId(m.homeTeam)
            /\ TeamId(team) # TeamId(m.awayTeam) THEN b
    ELSE recomputeDownstream(setMatchup(b, i, [m EXCEPT !.winner = team]), i)

clearWinner(b, matchupId) ==
  LET i == indexOfMatchup(b, matchupId) IN
  IF i = -1 THEN b
  ELSE LET m == getAllMatchupsOrdered(b)[i] IN
    recomputeDownstream(setMatchup(b, i, [m EXCEPT !.winner = Null]), i)

\* locked: a team slot is absent, or the live-score collaborator reports that
\* the real game has started or finished
isMatchupLocked(b, started, matchupId) ==
  LET i == indexOfMatchup(b, matchupId) IN
  \/ i = -1
  \/ ~bothSlotsPopulated(getAllMatchupsOrdered(b)[i])
  \/ matchupId \in started

(***************************************************************************)
(* State shared by the specifications                                      *)
(***************************************************************************)
NoBracket == [none |-> TRUE]

NoDecode == [none |-> TRUE]

NoCodes == << >>

NoToken == << >>

\* userName || "Someone" of useUrlState when the URL carries no name
DefaultUserName == "Someone"

\* a string or null: present is FALSE for null, text is the characters
NullStr == [present |-> FALSE, text |-> << >>]

Str(text) == [present |-> TRUE, text |-> text]

NoParams == [none |-> TRUE]

NoQuery == << >>

NoUrlState == [none |-> TRUE]

\* last: which component was clicked (via), which engine operation was called
\* (call), on which matchup and team, the bracket before the call, and
\* whether the matchup's real game had started by then
NoCall ==
  [via |-> "none", call |-> "none", id |-> "", team |-> Null,
   before |-> NoBracket, gameStarted |-> FALSE]

\* LiveGameInfo | null: no dialog open
NoGame == [none |-> TRUE]

\* a gameId that is null (or empty): if (urlState.gameId) fails
NoGameId == ""

\* a tab argument that was not given
NoTab == ""

\* useState<TabId>("stats")
DefaultTab == "stats"

\* the deep-link state of a URL with no game parameter
NoDeepLink == [gameId |-> NoGameId, tab |-> DefaultTab]

\* no live game and no live result
NoLive == [games |-> {}, results |-> {}]

NoStep == [step |-> "none"]

\* GameDialogProvider as mounted: useState(null), useState("stats"),
\* useState(false); the effect is due to run once after the first render
DialogMounted ==
  /\ selectedGame = NoGame
  /\ activeTab = DefaultTab
  /\ isInitialized = FALSE
  /\ isHydrated = FALSE
  /\ urlUpdates = << >>
  /\ effectDue = TRUE
  /\ openedGame = NoGame
  /\ lastStep = NoStep
  /\ nEvents = 0

InitBracket ==
  /\ bracket = createInitialBracket(DefaultUserName)
  /\ fresh = NoBracket
  /\ pc = "idle"
  /\ codes = NoCodes
  /\ token = NoToken
  /\ decoded = NoDecode
  /\ reloaded = NoBracket
  /\ last = NoCall
  /\ nOps = 0
  /\ gamesStarted = {}
  /\ params = NoParams
  /\ query = NoQuery
  /\ urlState = NoUrlState

InitCommon ==
  /\ InitBracket
  /\ DialogMounted
  /\ deepLink = NoDeepLink
  /\ live = NoLive

(***************************************************************************)
(* Spec: a shared link is opened.  applyPicksToFreshBracket runs statement *)
(* by statement on 13 two-bit codes (each statement reads its own codes,   *)
(* any value 0..3), the result replaces the page's bracket, the bracket is *)
(* shared again (encodeBracketPicks) and the link is re-opened.            *)
(***************************************************************************)
Init == InitCommon

\* owner names handed to applyPicksToFreshBracket: none and a name
OwnerNames == {"", "Ann"}

\* const bracket = createInitialBracket(userName)
StartApply ==
  /\ pc = "idle"
  /\ \E userName \in OwnerNames : fresh' = createInitialBracket(userName)
  /\ pc' = "wildCardPicks"
  /\ UNCHANGED <<bracket, codes, token, decoded, reloaded, last, nOps,
                 gamesStarted, params, query, urlState,
                 dialogVars>>

\* one statement of the function: the local bracket and the position change
Statement(at, next, result, read) ==
  /\ pc = at
  /\ fresh' = result
  /\ codes' = read
  /\ pc' = next
  /\ UNCHANGED <<bracket, token, decoded, reloaded, last, nOps, gamesStarted, params, query, urlState,
                 dialogVars>>

\* Bound on the inputs: the three wild-card codes of a conference are drawn
\* from these patterns (no pick, all home, all away, mixed, partial, and the
\* reserved field value 3); every later code ranges over all of 0..3.
WildCardPatterns ==
  { <<0, 0, 0>>, <<1, 1, 1>>, <<2, 2, 2>>, <<1, 2, 1>>, <<1, 2, 0>>,
    <<3, 3, 3>> }

ApplyWildCardPicks ==
  \E a \in WildCardPatterns, n \in WildCardPatterns :
    LET cs == [i \in 0..5 |-> IF i <= 2 THEN a[i + 1] ELSE n[i - 2]]
    IN Statement("wildCardPicks", "afcDivisional",
                 applyWildCardPicks(fresh, cs), cs)

DeriveAfcDivisional ==
  Statement("afcDivisional", "afcDivisionalPicks",
            deriveAfcDivisional(fresh), NoCodes)

ApplyAfcDivisionalPicks ==
  \E cs \in [6..7 -> FieldValues] :
    Statement("afcDivisionalPicks", "nfcDivisional",
              applyAfcDivisionalPicks(fresh, cs), cs)

DeriveNfcDivisional ==
  Statement("nfcDivisional", "nfcDivisionalPicks",
            deriveNfcDivisional(fresh), NoCodes)

ApplyNfcDivisionalPicks ==
  \E cs \in [8..9 -> FieldValues] :
    Statement("nfcDivisionalPicks", "afcChampionship",
              applyNfcDivisionalPicks(fresh, cs), cs)

DeriveAfcChampionship ==
  Statement("afcChampionship", "afcChampionshipPick",
            deriveAfcChampionship(fresh), NoCodes)

ApplyAfcChampionshipPick ==
  \E cs \in [{10} -> FieldValues] :
    Statement("afcChampionshipPick", "nfcChampionship",
              applyAfcChampionshipPick(fresh, cs), cs)

DeriveNfcChampionship ==
  Statement("nfcChampionship", "nfcChampionshipPick",
            deriveNfcChampionship(fresh), NoCodes)

ApplyNfcChampionshipPick ==
  \E cs \in [{11} -> FieldValues] :
    Statement("nfcChampionshipPick", "superBowl",
              applyNfcChampionshipPick(fresh, cs), cs)

DeriveSuperBowl ==
  Statement("superBowl", "superBowlPick", deriveSuperBowl(fresh), NoCodes)

ApplySuperBowlPick ==
  \E cs \in [{12} -> FieldValues] :
    Statement("superBowlPick", "completion", applySuperBowlPick(fresh, cs), cs)

\* bracket.isComplete = isBracketComplete(bracket); return bracket.  The
\* returned state replaces the page's bracket.
ReturnBracket ==
  /\ pc = "completion"
  /\ bracket' = updateCompletion(fresh)
  /\ fresh' = NoBracket
  /\ codes' = NoCodes
  /\ pc' = "loaded"
  /\ UNCHANGED <<token, decoded, reloaded, last, nOps, gamesStarted, params, query, urlState,
                 dialogVars>>

\* encodeBracketPicks(S): the token generateShareableUrl puts into the link
Share ==
  /\ pc = "loaded"
  /\ token' = encodeBracketPicks(bracket)
  /\ pc' = "shared"
  /\ UNCHANGED <<bracket, fresh, codes, decoded, reloaded, last, nOps,
                 gamesStarted, params, query, urlState,
                 dialogVars>>

\* applyPicksToFreshBracket(decodeBracketPicks(token), S.userName) for the
\* bracket S the token was made of: decode, then apply to a fresh bracket of
\* the same owner
Reopen ==
  /\ pc = "shared"
  /\ decoded' = decodeBracketPicks(token)
  /\ reloaded' = IF decoded'.threw THEN NoBracket
                 ELSE applyPicksToFreshBracket(decoded'.codes,
                                               bracket.userName)
  /\ pc' = "reopened"
  /\ UNCHANGED <<bracket, fresh, codes, token, last, nOps, gamesStarted, params, query, urlState,
                 dialogVars>>

Next ==
  \/ StartApply
  \/ ApplyWildCardPicks
  \/ DeriveAfcDivisional
  \/ ApplyAfcDivisionalPicks
  \/ DeriveNfcDivisional
  \/ ApplyNfcDivisionalPicks
  \/ DeriveAfcChampionship
  \/ ApplyAfcChampionshipPick
  \/ DeriveNfcChampionship
  \/ ApplyNfcChampionshipPick
  \/ DeriveSuperBowl
  \/ ApplySuperBowlPick
  \/ ReturnBracket
  \/ Share
  \/ Reopen

Spec == Init /\ [][Next]_vars

(***************************************************************************)
(* Properties of Spec                                                      *)
(***************************************************************************)
\* the page shows a bracket returned by applyPicksToFreshBracket
Settled == pc \in {"loaded", "shared", "reopened"}

\* source order of the statements of applyPicksToFreshBracket
Positions ==
  << "wildCardPicks", "afcDivisional", "afcDivisionalPicks", "nfcDivisional",
     "nfcDivisionalPicks", "afcChampionship", "afcChampionshipPick",
     "nfcChampionship", "nfcChampionshipPick", "superBowl", "superBowlPick",
     "completion" >>

InApply == \E k \in 1..Len(Positions) : Positions[k] = pc

\* number of statements already executed
Executed == (CHOOSE k \in 1..Len(Positions) : Positions[k] = pc) - 1

slotsOf(matchup) == [home |-> matchup.homeTeam, away |-> matchup.awayTeam]

\* slots of matchup i as the derivation rules give them from the winners of
\* the matchups feeding it in bracket b (i in 6..12)
derivedSlots(b, i) ==
  CASE i = 6  -> calculateDivisionalMatchups(
                   "AFC", winnersOf(b.afc.wildCard)).matchup1
    [] i = 7  -> calculateDivisionalMatchups(
                   "AFC", winnersOf(b.afc.wildCard)).matchup2
    [] i = 8  -> calculateDivisionalMatchups(
                   "NFC", winnersOf(b.nfc.wildCard)).matchup1
    [] i = 9  -> calculateDivisionalMatchups(
                   "NFC", winnersOf(b.nfc.wildCard)).matchup2
    [] i = 10 -> calculateChampionshipMatchup(winnersOf(b.afc.divisional))
    [] i = 11 -> calculateChampionshipMatchup(winnersOf(b.nfc.divisional))
    [] OTHER  -> [home |-> b.afc.championship.winner,
                  away |-> b.nfc.championship.winner]

\* number of statements executed once the slots of matchup i are derived,
\* and once its code is applied (i in 6..12)
DerivedAfter(i) ==
  CASE i \in 6..7 -> 2 [] i \in 8..9 -> 4 [] i = 10 -> 6 [] i = 11 -> 8
    [] OTHER -> 10

AppliedAfter(i) == IF i <= 5 THEN 1 ELSE DerivedAfter(i) + 1

\* C1: round trip.  For a bracket S returned by applyPicksToFreshBracket
\* (slots derived, each winner one of the two teams) and owned by anyone,
\* applyPicksToFreshBracket(decodeBracketPicks(encodeBracketPicks(S)),
\* S.userName) does not throw and gives, for each of the 13 matchups, the
\* same winner decision (none / home / away) and the same winning team as S.
C1_RoundTrip ==
  pc = "reopened" =>
    /\ ~decoded.threw
    /\ reloaded # NoBracket
    /\ \A i \in 0..12 :
         LET s == getAllMatchupsOrdered(bracket)[i]
             r == getAllMatchupsOrdered(reloaded)[i]
         IN /\ r.winner = s.winner
            /\ getWinnerCode(r) = getWinnerCode(s)

\* a complete bracket without owner name
C1_Witness ==
  /\ pc = "reopened"
  /\ bracket.userName = ""
  /\ bracket.isComplete
  /\ bracket.superBowl.winner = Team("NFC", 5)
  /\ reloaded.superBowl.winner = Team("NFC", 5)

\* C29: re-encoding is a normalisation.  For the bracket B that
\* applyPicksToFreshBracket returns for any 13 two-bit codes, decoding the
\* token of B and applying the codes to a fresh bracket with the same owner
\* gives a bracket with B's team slots, B's winners and B's isComplete.
C29_ReencodingNormalises ==
  pc = "reopened" =>
    /\ ~decoded.threw
    /\ reloaded # NoBracket
    /\ reloaded.userName = bracket.userName
    /\ reloaded.isComplete = bracket.isComplete
    /\ \A i \in 0..12 :
         LET s == getAllMatchupsOrdered(bracket)[i]
             r == getAllMatchupsOrdered(reloaded)[i]
         IN /\ r.id = s.id
            /\ r.homeTeam = s.homeTeam
            /\ r.awayTeam = s.awayTeam
            /\ r.winner = s.winner

\* an incomplete bracket whose Super Bowl has a home team, no away team and
\* the home team as winner came back from its token as it was
C29_Witness ==
  /\ pc = "reopened"
  /\ bracket.userName = "Ann"
  /\ reloaded.userName = "Ann"
  /\ ~bracket.isComplete
  /\ bracket.superBowl.homeTeam # Null
  /\ bracket.superBowl.awayTeam = Null
  /\ bracket.superBowl.winner = bracket.superBowl.homeTeam
  /\ bracket.nfc.wildCard[1].winner = Null
  /\ reloaded.superBowl = bracket.superBowl
  /\ reloaded.nfc = bracket.nfc

\* C2: ordering inside applyPicksToFreshBracket.  While the function runs,
\* a divisional, championship or Super Bowl matchup has no winner before its
\* code is applied, and from the moment its slots are derived (which is
\* before its code is applied) they are the slots the derivation rules give
\* from the winners already applied in the preceding round; before that the
\* slots are still empty.  Wild-card codes are applied first.
C2_DeriveBeforeApply ==
  InApply =>
    /\ \A i \in 0..12 :
         Executed < AppliedAfter(i) =>
           getAllMatchupsOrdered(fresh)[i].winner = Null
    /\ \A i \in 6..12 :
         /\ DerivedAfter(i) < AppliedAfter(i)
         /\ Executed >= DerivedAfter(i) =>
              slotsOf(getAllMatchupsOrdered(fresh)[i]) = derivedSlots(fresh, i)
         /\ Executed < DerivedAfter(i) =>
              slotsOf(getAllMatchupsOrdered(fresh)[i]) = NoPairing

C2_Witness ==
  /\ pc = "superBowlPick"
  /\ fresh.superBowl.homeTeam = Team("AFC", 1)
  /\ fresh.superBowl.awayTeam = Team("NFC", 7)
  /\ fresh.superBowl.winner = Null

\* C3 (as claimed): in a state returned by applyPicksToFreshBracket a matchup
\* has a winner only if both of its team slots are populated.
C3_WinnerOnlyWithBothSlots ==
  Settled =>
    \A i \in 0..12 :
      LET m == getAllMatchupsOrdered(bracket)[i]
      IN m.winner # Null => bothSlotsPopulated(m)

\* the matchups whose code the statement just executed has applied
JustApplied == IF InApply THEN DOMAIN codes ELSE {}

\* C12: in applyPicksToFreshBracket a code 1 on a matchup whose home slot is
\* null, or a code 2 on a matchup whose away slot is null, leaves the matchup
\* without winner (and the function goes on to its next statement).
C12_PickOfEmptySlot ==
  \A i \in JustApplied :
    LET m == getAllMatchupsOrdered(fresh)[i]
    IN /\ (codes[i] = 1 /\ m.homeTeam = Null) => m.winner = Null
       /\ (codes[i] = 2 /\ m.awayTeam = Null) => m.winner = Null

\* code 1 was applied to the AFC championship whose home slot is null while
\* its away slot holds a team
C12_Witness ==
  /\ pc = "nfcChampionship"
  /\ codes[10] = 1
  /\ fresh.afc.championship.homeTeam = Null
  /\ fresh.afc.championship.awayTeam # Null
  /\ fresh.afc.championship.winner = Null

\* number of matchups of b that have a winner
decidedCount(b) ==
  Cardinality({i \in 0..12 : getAllMatchupsOrdered(b)[i].winner # Null})

\* C13: the bracket returned by applyPicksToFreshBracket has isComplete true
\* exactly when all 13 matchups have a winner, and taking the winner away
\* from any one matchup of a complete bracket makes isBracketComplete false.
C13_CompleteIffAllThirteen ==
  Settled =>
    /\ bracket.isComplete = (decidedCount(bracket) = 13)
    /\ bracket.isComplete =>
         \A i \in 0..12 :
           ~isBracketComplete(
              setMatchup(bracket, i,
                [getAllMatchupsOrdered(bracket)[i] EXCEPT !.winner = Null]))

C13_Witness ==
  /\ pc = "loaded"
  /\ bracket.isComplete
  /\ decidedCount(bracket) = 13
  /\ bracket.superBowl.winner = Team("AFC", 1)

\* the divisional pairing of a conference as the re-seeding rule states it
\* for three wild-card winners: seed 1 hosts the numerically highest seed,
\* the two others meet with the lower seed number at home
IsReseeded(conference, wildCard, divisional) ==
  LET ws  == {wildCard[k].winner.seed : k \in 1..3}
      low == CHOOSE x \in ws : \A y \in ws : y <= x
  IN /\ divisional[1].homeTeam = Team(conference, 1)
     /\ divisional[1].awayTeam = Team(conference, low)
     /\ {divisional[2].homeTeam.seed, divisional[2].awayTeam.seed}
          = ws \ {low}
     /\ divisional[2].homeTeam.seed < divisional[2].awayTeam.seed
     /\ divisional[2].homeTeam.conference = conference
     /\ divisional[2].awayTeam.conference = conference

allDecided(matchups) == \A k \in 1..Len(matchups) : matchups[k].winner # Null

\* C15: divisional re-seeding.  Once applyPicksToFreshBracket has derived the
\* divisional slots of a conference whose three wild-card matchups have
\* winners, matchup 1 is seed 1 (home) against the numerically highest seed
\* among the winners and matchup 2 pairs the two others, better seed at home;
\* with seeds 2, 3, 4 winning in the AFC the slots are 1 v 4 and 2 v 3.
C15_DivisionalReseeding ==
  /\ (pc = "afcDivisionalPicks" /\ allDecided(fresh.afc.wildCard)) =>
       /\ IsReseeded("AFC", fresh.afc.wildCard, fresh.afc.divisional)
       /\ (\A k \in 1..3 : fresh.afc.wildCard[k].winner.seed = k + 1) =>
            /\ slotsOf(fresh.afc.divisional[1])
                 = [home |-> Team("AFC", 1), away |-> Team("AFC", 4)]
            /\ slotsOf(fresh.afc.divisional[2])
                 = [home |-> Team("AFC", 2), away |-> Team("AFC", 3)]
  /\ (pc = "nfcDivisionalPicks" /\ allDecided(fresh.nfc.wildCard)) =>
       IsReseeded("NFC", fresh.nfc.wildCard, fresh.nfc.divisional)

C15_Witness ==
  /\ pc = "afcDivisionalPicks"
  /\ \A k \in 1..3 : fresh.afc.wildCard[k].winner = Team("AFC", k + 1)
  /\ fresh.afc.divisional[1].awayTeam = Team("AFC", 4)
  /\ fresh.afc.divisional[2].homeTeam = Team("AFC", 2)

(***************************************************************************)
(* Click handlers of the Matchup and SuperBowl components                  *)
(***************************************************************************)
\* what a handler invokes: nothing, onSelectWinner(id, team) or
\* onClearWinner(id)
NoHandlerCall == [call |-> "none", id |-> "", team |-> Null]

\* faulty variant of canSelect: one populated slot is enough
canSelect_either(matchup) == matchup.homeTeam # Null \/ matchup.awayTeam # Null

\* Matchup: const canSelect = homeTeam !== null && awayTeam !== null
canSelect(matchup) == matchup.homeTeam # Null /\ matchup.awayTeam # Null

\* faulty variant of handleSelect: a click on the winner selects it again
handleSelect_neverClears(matchup, team) ==
  IF ~canSelect(matchup) THEN NoHandlerCall
  ELSE [call |-> "selectWinner", id |-> matchup.id, team |-> team]

\* Matchup.handleSelect(team), with onClearWinner supplied as ConferenceBracket
\* supplies it
handleSelect(matchup, team) ==
  IF ~canSelect(matchup) THEN NoHandlerCall
  ELSE IF matchup.winner # Null /\ TeamId(matchup.winner) = TeamId(team)
       THEN [call |-> "clearWinner", id |-> matchup.id, team |-> Null]
       ELSE [call |-> "selectWinner", id |-> matchup.id, team |-> team]

teamOnSide(matchup, side) ==
  IF side = "home" THEN matchup.homeTeam ELSE matchup.awayTeam

\* TeamCard onClick: () => homeTeam && handleSelect(homeTeam), same for away
onClick(matchup, side) ==
  IF teamOnSide(matchup, side) = Null THEN NoHandlerCall
  ELSE handleSelect(matchup, teamOnSide(matchup, side))

\* SuperBowl: canSelect = homeTeam !== null && awayTeam !== null && !isLocked
superBowlCanSelect(b, started) ==
  /\ b.superBowl.homeTeam # Null
  /\ b.superBowl.awayTeam # Null
  /\ ~isMatchupLocked(b, started, b.superBowl.id)

\* SuperBowl.handleSelect(team)
superBowlHandleSelect(b, started, team) ==
  IF ~superBowlCanSelect(b, started) THEN NoHandlerCall
  ELSE IF b.superBowl.winner # Null
          /\ TeamId(b.superBowl.winner) = TeamId(team)
       THEN [call |-> "clearWinner", id |-> b.superBowl.id, team |-> Null]
       ELSE [call |-> "selectWinner", id |-> b.superBowl.id, team |-> team]

superBowlOnClick(b, started, side) ==
  IF teamOnSide(b.superBowl, side) = Null THEN NoHandlerCall
  ELSE superBowlHandleSelect(b, started, teamOnSide(b.superBowl, side))

\* the callbacks are the engine's selectWinner and clearWinner
dispatch(b, c) ==
  CASE c.call = "selectWinner" -> selectWinner(b, c.id, c.team)
    [] c.call = "clearWinner"  -> clearWinner(b, c.id)
    [] OTHER                   -> b

(***************************************************************************)
(* SpecEngine: a shared link is opened and the user clicks teams; the      *)
(* engine's selectWinner and clearWinner are also called directly, and the *)
(* bracket can be reset from BracketControls.                              *)
(***************************************************************************)
MaxOps == 2

\* the b parameter of the links opened
SharedTokens ==
  { <<"A", "A", "A", "A", "A", "A">>,      \* no pick
    <<"V", "V", "V", "V", "A", "Q">>,      \* every matchup: home
    <<"q", "q", "q", "q", "A", "g">>,      \* every matchup: away
    <<"V", "V", "U", "F", "A", "A">>,      \* wild card and divisional: home
    <<"F", "R", "A", "A", "A", "A">>,      \* AFC wild cards and AFC div 1 only
    <<"F", "V", "A", "Q", "A", "Q">>,      \* AFC side only, Super Bowl: home
    <<"m", "Z", "Z", "p", "A", "Q">>,      \* mixed, complete
    <<"_", "_", "_", "_", "_", "w">> }     \* every field 3

\* matchups the engine is called on directly, and an id no matchup has
EngineIds == {"afc-wc-1", "afc-div-1", "afc-champ", "nfc-champ", "super-bowl"}

UnknownId == "afc-wc-9"

\* teams passed to a direct selectWinner call on matchup m: its two teams and
\* two teams that need not be in it
teamArguments(m) ==
  {m.homeTeam, m.awayTeam, Team("AFC", 1), Team("NFC", 7)} \ {Null}

InitEngine == InitCommon

OpenSharedLink ==
  /\ pc = "idle"
  /\ \E t \in SharedTokens :
       /\ token' = t
       /\ decoded' = decodeBracketPicks(t)
       /\ bracket' = applyPicksToFreshBracket(decoded'.codes, DefaultUserName)
  /\ pc' = "page"
  /\ UNCHANGED <<fresh, codes, reloaded, last, nOps, gamesStarted, params, query, urlState,
                 dialogVars>>

\* one call of the engine made on behalf of the component via
Called(via, id, c) ==
  /\ bracket' = dispatch(bracket, c)
  /\ last' = [via |-> via, call |-> c.call, id |-> id, team |-> c.team,
              before |-> bracket, gameStarted |-> id \in gamesStarted]
  /\ nOps' = nOps + 1
  /\ UNCHANGED <<fresh, pc, codes, token, decoded, reloaded, gamesStarted, params, query, urlState,
                 dialogVars>>

MatchupClick ==
  /\ pc = "page"
  /\ nOps < MaxOps
  /\ \E i \in 0..11, side \in {"home", "away"} :
       LET m == getAllMatchupsOrdered(bracket)[i]
       IN Called("Matchup", m.id, onClick(m, side))

SuperBowlClick ==
  /\ pc = "page"
  /\ nOps < MaxOps
  /\ \E side \in {"home", "away"} :
       Called("SuperBowl", bracket.superBowl.id,
              superBowlOnClick(bracket, gamesStarted, side))

SelectWinner ==
  /\ pc = "page"
  /\ nOps < MaxOps
  /\ \/ \E id \in EngineIds :
          \E team \in teamArguments(
                        getAllMatchupsOrdered(bracket)[indexOfMatchup(bracket, id)]) :
            Called("engine", id,
                   [call |-> "selectWinner", id |-> id, team |-> team])
     \/ Called("engine", UnknownId,
               [call |-> "selectWinner", id |-> UnknownId,
                team |-> Team("AFC", 2)])

ClearWinner ==
  /\ pc = "page"
  /\ nOps < MaxOps
  /\ \E id \in EngineIds \cup {UnknownId} :
       Called("engine", id, [call |-> "clearWinner", id |-> id, team |-> Null])

\* BracketContext resetBracket: the bracket is replaced by a fresh one; the
\* owner's name it is given is the old one or none
resetBracket(b, owner) == createInitialBracket(owner)

\* BracketControls.handleReset: resetBracket() when the user confirms
handleReset(b, confirmed, owner) ==
  IF confirmed THEN resetBracket(b, owner) ELSE b

\* the Reset button is pressed and the confirm() dialog answered
HandleReset ==
  /\ pc = "page"
  /\ nOps < MaxOps
  /\ \E confirmed \in BOOLEAN, owner \in {bracket.userName, ""} :
       /\ bracket' = handleReset(bracket, confirmed, owner)
       /\ last' = [via |-> "BracketControls",
                   call |-> IF confirmed THEN "resetBracket" ELSE "none",
                   id |-> "", team |-> Null,
                   before |-> bracket, gameStarted |-> FALSE]
  /\ nOps' = nOps + 1
  /\ UNCHANGED <<fresh, pc, codes, token, decoded, reloaded, gamesStarted,
                 params, query, urlState, dialogVars>>

\* matchups whose real game the live-score collaborator may report as started
LiveIds == {"afc-wc-1", "super-bowl"}

\* the live-score collaborator reports that a game has started (one game is
\* followed at a time)
GameStarts ==
  /\ pc = "page"
  /\ gamesStarted = {}
  /\ \E id \in LiveIds : gamesStarted' = gamesStarted \cup {id}
  /\ UNCHANGED <<bracket, fresh, pc, codes, token, decoded, reloaded, last,
                 nOps, params, query, urlState,
                 dialogVars>>

NextEngine ==
  \/ OpenSharedLink
  \/ GameStarts
  \/ MatchupClick
  \/ SuperBowlClick
  \/ SelectWinner
  \/ ClearWinner
  \/ HandleReset

SpecEngine == InitEngine /\ [][NextEngine]_vars

(***************************************************************************)
(* Properties of SpecEngine                                                *)
(***************************************************************************)
\* the matchup the last click or call was about, before and after it
lastIndex == indexOfMatchup(last.before, last.id)

matchupBefore == getAllMatchupsOrdered(last.before)[lastIndex]

\* the later-round matchups fed, directly or transitively, by matchup i
Downstream(i) ==
  CASE i \in 0..2 -> {6, 7, 10, 12}
    [] i \in 3..5 -> {8, 9, 11, 12}
    [] i \in 6..7 -> {10, 12}
    [] i \in 8..9 -> {11, 12}
    [] i \in 10..11 -> {12}
    [] OTHER -> {}

\* the slots of downstream matchup d that are filled from matchup i
DependentSlots(d, i) ==
  CASE d \in 6..9 -> {"home", "away"}
    [] d \in 10..11 /\ i \in 0..5 -> {"home", "away"}
    [] d \in 10..11 /\ i \in {6, 8} -> {"home"}
    [] d \in 10..11 /\ i \in {7, 9} -> {"away"}
    [] d = 12 /\ conferenceOfIndex(i) = "AFC" -> {"home"}
    [] OTHER -> {"away"}

\* C4: after opening a link (applyPicksToFreshBracket) and after every click
\* or engine call, the slots of each divisional, championship and Super Bowl
\* matchup are what the derivation rules give from the current winners of the
\* matchups feeding it, and a winner that is set is one of the matchup's two
\* current teams (a winner that no longer matches has been cleared).
C4_SlotsFollowWinners ==
  pc = "page" =>
    \A i \in 6..12 :
      LET m == getAllMatchupsOrdered(bracket)[i]
      IN /\ slotsOf(m) = derivedSlots(bracket, i)
         /\ m.winner # Null => m.winner \in {m.homeTeam, m.awayTeam}

\* changing the AFC wild card 1 pick of a complete bracket re-paired the
\* divisional round and cleared the AFC championship pick
C4_Witness ==
  /\ pc = "page"
  /\ last.via = "Matchup"
  /\ last.call = "selectWinner"
  /\ last.id = "afc-wc-1"
  /\ last.before.afc.championship.winner # Null
  /\ bracket.afc.championship.winner = Null
  /\ bracket.afc.divisional[1].awayTeam = Team("AFC", 7)

\* C14: after opening a link and after every click or engine call, the
\* winner of each of the 13 matchups, if present, is the matchup's current
\* home team or away team.
C14_WinnerIsOneOfTheTeams ==
  pc = "page" =>
    \A i \in 0..12 :
      LET m == getAllMatchupsOrdered(bracket)[i]
      IN m.winner # Null => (m.winner = m.homeTeam \/ m.winner = m.awayTeam)

\* a decided matchup was offered a team that is not in it: its winner stays
C14_Witness ==
  /\ last.via = "engine"
  /\ last.call = "selectWinner"
  /\ lastIndex # -1
  /\ bothSlotsPopulated(matchupBefore)
  /\ matchupBefore.winner # Null
  /\ last.team \notin {matchupBefore.homeTeam, matchupBefore.awayTeam}
  /\ getAllMatchupsOrdered(bracket)[lastIndex].winner = matchupBefore.winner

\* C20 (as claimed): a click on a team of a matchup whose real game has
\* started is never forwarded to selectWinner or clearWinner, in the
\* conference rounds and in the Super Bowl alike.
C20_NoCallOnceGameStarted ==
  (last.via \in {"Matchup", "SuperBowl"} /\ last.gameStarted)
    => last.call = "none"

\* C21: click toggle.  A click that a Matchup or SuperBowl component forwards
\* makes exactly one engine call on the clicked matchup: clearWinner(id) when
\* the clicked team is the current winner, otherwise selectWinner(id, T) with
\* T the matchup's current home or away team.  Hence in every state of the
\* page a click on the winner of a selectable matchup calls clearWinner and
\* leaves the matchup undecided: a second click on the same team undoes the
\* first.
C21_ClickToggle ==
  /\ (last.via \in {"Matchup", "SuperBowl"} /\ last.call # "none") =>
       LET after == getAllMatchupsOrdered(bracket)[lastIndex]
       IN /\ lastIndex # -1
          /\ matchupBefore.id = last.id
          /\ canSelect(matchupBefore)
          /\ bracket = dispatch(last.before, [call |-> last.call,
                                              id |-> last.id,
                                              team |-> last.team])
          /\ last.call = "clearWinner" =>
               /\ matchupBefore.winner # Null
               /\ after.winner = Null
          /\ last.call = "selectWinner" =>
               /\ last.team \in {matchupBefore.homeTeam, matchupBefore.awayTeam}
               /\ last.team # matchupBefore.winner
               /\ after.winner = last.team
  /\ pc = "page" =>
       \A i \in 0..12, side \in {"home", "away"} :
         LET m == getAllMatchupsOrdered(bracket)[i]
             c == IF i = 12 THEN superBowlOnClick(bracket, gamesStarted, side)
                  ELSE onClick(m, side)
         IN (c.call # "none" /\ teamOnSide(m, side) = m.winner) =>
              /\ c = [call |-> "clearWinner", id |-> m.id, team |-> Null]
              /\ getAllMatchupsOrdered(dispatch(bracket, c))[i].winner = Null

\* on a page opened without picks, the home team of AFC Wild Card 1 was
\* clicked twice: the second click called clearWinner and the matchup is
\* undecided again
C21_Witness ==
  /\ token = <<"A", "A", "A", "A", "A", "A">>
  /\ nOps = 2
  /\ last.via = "Matchup"
  /\ last.call = "clearWinner"
  /\ last.id = "afc-wc-1"
  /\ last.before.afc.wildCard[1].winner = last.before.afc.wildCard[1].homeTeam
  /\ bracket.afc.wildCard[1].winner = Null

\* C5: cascade clearing.  After clearWinner on a matchup, that matchup has no
\* winner and every later-round matchup fed by it has no winner and has the
\* team slots that were filled from it empty, through championship and Super
\* Bowl.
C5_CascadeClearing ==
  (last.call = "clearWinner" /\ lastIndex # -1) =>
    /\ getAllMatchupsOrdered(bracket)[lastIndex].winner = Null
    /\ \A d \in Downstream(lastIndex) :
         LET m == getAllMatchupsOrdered(bracket)[d]
         IN /\ m.winner = Null
            /\ \A side \in DependentSlots(d, lastIndex) :
                 teamOnSide(m, side) = Null

\* the AFC wild card 1 pick is cleared while the AFC divisional matchup 1 it
\* led to was decided: that matchup is left without teams and without winner
C5_Witness ==
  /\ last.call = "clearWinner"
  /\ last.id = "afc-wc-1"
  /\ last.before.afc.wildCard[1].winner # Null
  /\ last.before.afc.divisional[1].winner # Null
  /\ slotsOf(bracket.afc.divisional[1]) = NoPairing
  /\ bracket.afc.divisional[1].winner = Null

\* C6: locking.  selectWinner on a matchup with an absent team slot leaves
\* the whole bracket state as it was, and a click on a team card of a matchup
\* with an absent slot (Matchup or SuperBowl component) calls neither
\* selectWinner nor clearWinner.
C6_Locking ==
  (last.via # "none" /\ lastIndex # -1) =>
    /\ (last.call = "selectWinner" /\ ~bothSlotsPopulated(matchupBefore))
         => bracket = last.before
    /\ (last.via \in {"Matchup", "SuperBowl"}
          /\ ~bothSlotsPopulated(matchupBefore))
         => (last.call = "none" /\ bracket = last.before)

\* a click on the AFC championship card while only its home team is known
C6_Witness ==
  /\ last.via = "Matchup"
  /\ last.id = "afc-champ"
  /\ matchupBefore.homeTeam # Null
  /\ matchupBefore.awayTeam = Null
  /\ last.call = "none"
  /\ bracket = last.before

(***************************************************************************)
(* SpecCodec: the codec as pure functions.  A bracket handed to            *)
(* encodeBracketPicks, or a token handed to decodeBracketPicks, is drawn   *)
(* from a bounded set of inputs.                                           *)
(***************************************************************************)
\* characters a received token is made of: zero bits, picks 1-1-1, the
\* url-safe character for 63, a plain-base64 character and the padding sign
TokenChars == {"A", "V", "_", "+", "="}

MaxTokenLen == 6

TokenInputs == UNION {[1..n -> TokenChars] : n \in 0..MaxTokenLen}

\* the base64url alphabet: A-Z a-z 0-9 - _
IsBase64UrlChar(c) == (IsB64Char(c) /\ c \notin {"+", "/"}) \/ c \in {"-", "_"}

\* a fresh bracket in which only matchup i is decided: its winner is its home
\* team (code 1) or its away team (code 2); matchups of later rounds get two
\* placeholder teams
onlyDecided(i, code) ==
  LET b == createInitialBracket(DefaultUserName)
      m == getAllMatchupsOrdered(b)[i]
      c == conferenceOfIndex(i)
      t == IF i <= 5 THEN m
           ELSE IF i = 12
                THEN [m EXCEPT !.homeTeam = Team("AFC", 1),
                               !.awayTeam = Team("NFC", 1)]
                ELSE [m EXCEPT !.homeTeam = Team(c, 1),
                               !.awayTeam = Team(c, 2)]
  IN setMatchup(b, i, applyCode(t, code))

\* tokens of shared links whose brackets are re-encoded
SampleTokens ==
  { <<"A", "A", "A", "A", "A", "A">>,      \* no pick
    <<"V", "V", "V", "V", "A", "Q">>,      \* every matchup: home
    <<"q", "q", "q", "q", "A", "g">>,      \* every matchup: away
    <<"m", "Z", "Z", "p", "A", "Q">>,      \* mixed, complete
    <<"F", "V", "A", "Q", "A", "Q">>,      \* AFC side only, Super Bowl: home
    <<"V", "Q", "A", "A", "A", "A">> }     \* wild cards only

sampleBracket(t) ==
  applyPicksToFreshBracket(decodeBracketPicks(t).codes, DefaultUserName)

\* inconsistent states: matchup i has a winner that is neither of its teams
\* ("neither"), a winner but no teams ("noTeams"), or is absent ("absent")
inconsistent(i, kind) ==
  LET b == onlyDecided(i, 1)
      m == getAllMatchupsOrdered(b)[i]
      other == CHOOSE t \in Teams : t \notin {m.homeTeam, m.awayTeam}
  IN CASE kind = "neither" -> setMatchup(b, i, [m EXCEPT !.winner = other])
       [] kind = "noTeams" ->
            setMatchup(b, i, [m EXCEPT !.homeTeam = Null, !.awayTeam = Null])
       [] OTHER -> setMatchup(b, i, NoMatchup)

InconsistentKinds == {"neither", "noTeams", "absent"}

EncodeInputs ==
  {onlyDecided(i, code) : i \in 0..12, code \in {1, 2}}
    \cup {sampleBracket(t) : t \in SampleTokens}
    \cup {inconsistent(i, kind) : i \in 0..12, kind \in InconsistentKinds}

InitCodec == InitCommon

\* a bracket is handed to encodeBracketPicks
ChooseBracket ==
  /\ pc = "idle"
  /\ \E b \in EncodeInputs : bracket' = b
  /\ pc' = "encoding"
  /\ UNCHANGED <<fresh, codes, token, decoded, reloaded, last, nOps,
                 gamesStarted, params, query, urlState,
                 dialogVars>>

Encode ==
  /\ pc = "encoding"
  /\ token' = encodeBracketPicks(bracket)
  /\ pc' = "encoded"
  /\ UNCHANGED <<bracket, fresh, codes, decoded, reloaded, last, nOps,
                 gamesStarted, params, query, urlState,
                 dialogVars>>

\* a link arrives whose b parameter is t
ReceiveToken ==
  /\ pc = "idle"
  /\ \E t \in TokenInputs : token' = t
  /\ pc' = "received"
  /\ UNCHANGED <<bracket, fresh, codes, decoded, reloaded, last, nOps,
                 gamesStarted, params, query, urlState,
                 dialogVars>>

Decode ==
  /\ pc = "received"
  /\ decoded' = decodeBracketPicks(token)
  /\ pc' = "decoded"
  /\ UNCHANGED <<bracket, fresh, codes, token, reloaded, last, nOps,
                 gamesStarted, params, query, urlState,
                 dialogVars>>

NextCodec == ChooseBracket \/ Encode \/ ReceiveToken \/ Decode

SpecCodec == InitCodec /\ [][NextCodec]_vars

(***************************************************************************)
(* Properties of SpecCodec                                                 *)
(***************************************************************************)
\* what atob returns for the token once made plain base64 and padded
tokenBinary(t) == atob(PadToFour(ReplaceAll(ReplaceAll(t, "-", "+"), "_", "/")))

\* C7 (as claimed): decodeBracketPicks throws for every token whose base64
\* decoding yields fewer than 4 bytes.
C7_ShortTokenThrows ==
  (pc = "decoded" /\ ~tokenBinary(token).threw
     /\ Len(tokenBinary(token).bytes) < 4)
    => decoded.threw

\* C8 (as claimed): decodeBracketPicks throws for every token containing a
\* character outside the base64url alphabet.
C8_ForeignCharacterThrows ==
  (pc = "decoded" /\ \E k \in 1..Len(token) : ~IsBase64UrlChar(token[k]))
    => decoded.threw

\* C9 (as claimed): for every accepted token decodeBracketPicks returns
\* exactly 13 codes, each 0, 1 or 2.
C9_CodesAreWinnerCodes ==
  (pc = "decoded" /\ ~decoded.threw) =>
    /\ DOMAIN decoded.codes = 0..12
    /\ \A i \in 0..12 : decoded.codes[i] \in WinnerCodes

\* the code the codec rules give for a matchup: 0 without matchup or winner,
\* 1 for the home team, 2 for the away team, 0 for any other winner
ruleCode(m) ==
  IF m = NoMatchup THEN 0
  ELSE IF m.winner = Null THEN 0
  ELSE IF m.homeTeam # Null /\ m.winner = m.homeTeam THEN 1
  ELSE IF m.awayTeam # Null /\ m.winner = m.awayTeam THEN 2
  ELSE 0

\* C11: encodeBracketPicks yields a token for every bracket handed to it,
\* inconsistent ones included, and the token carries for each matchup the
\* code 0 (matchup or winner absent, or winner neither team), 1 (winner is
\* the home team) or 2 (winner is the away team).
C11_WinnerCodeNeverFails ==
  pc = "encoded" =>
    /\ token # NoToken
    /\ ~decodeBracketPicks(token).threw
    /\ \A i \in 0..12 :
         decodeBracketPicks(token).codes[i]
           = ruleCode(getAllMatchupsOrdered(bracket)[i])

\* the Super Bowl has a winner that is neither of its teams: no pick encoded
C11_Witness ==
  /\ pc = "encoded"
  /\ bracket = inconsistent(12, "neither")
  /\ bracket.superBowl.winner # Null
  /\ token = <<"A", "A", "A", "A", "A", "A">>

\* C18: for every bracket state, consistent or not, the token returned by
\* encodeBracketPicks has exactly 6 characters, each of them one of A-Z, a-z,
\* 0-9, "-" and "_": it holds no "+", no "/" and no "=".
C18_TokenIsSixUrlSafeChars ==
  pc = "encoded" =>
    /\ Len(token) = 6
    /\ \A k \in 1..6 : IsBase64UrlChar(token[k])
    /\ \A k \in 1..6 : token[k] \notin {"+", "/", "="}

\* a bracket with the Super Bowl decided was encoded: the fourth byte is not
\* zero, so the last two characters of the token carry a pick
C18_Witness ==
  /\ pc = "encoded"
  /\ getWinnerCode(bracket.superBowl) # 0
  /\ Len(token) = 6
  /\ token[6] # "A"

\* C10: bit layout of encodeBracketPicks.  The code of matchup i occupies
\* bits 2i and 2i+1 of the packed value, bits 26..31 are zero, byte k holds
\* bits 8k..8k+7, the token is the base64url text of these 4 bytes, and a
\* bracket with only the Super Bowl decided as home gives bytes [0,0,0,1].
C10_BitLayout ==
  pc = "encoded" =>
    LET cs     == bracketCodes(bracket)
        packed == packCodes(cs)
        bytes  == packedBytes(packed)
    IN /\ \A i \in 0..12 : (packed \div (4 ^ i)) % 4 = cs[i]
       /\ packed >= 0
       /\ packed \div (2 ^ 26) = 0
       /\ Len(bytes) = 4
       /\ \A k \in 0..3 : bytes[k + 1] = (packed \div (256 ^ k)) % 256
       /\ ~tokenBinary(token).threw
       /\ tokenBinary(token).bytes = bytes
       /\ bracket = onlyDecided(12, 1) => bytes = <<0, 0, 0, 1>>

C10_Witness ==
  /\ pc = "encoded"
  /\ bracket = onlyDecided(12, 1)
  /\ token = <<"A", "A", "A", "A", "A", "Q">>

(***************************************************************************)
(* Links: generateShareableUrl, parseUrlParams (lib/url-encoding),         *)
(* useUrlState, and the URLSearchParams they go through                    *)
(***************************************************************************)
KeyB == <<"b">>

KeyName == <<"n", "a", "m", "e">>

KeyView == <<"v", "i", "e", "w">>

Live == <<"l", "i", "v", "e">>

\* faulty variant of formEncodeChar: nothing is escaped
formEncodeChar_raw(c) == <<c>>

\* the characters of the texts: printable ASCII, code points 32..126 in
\* order (the grave accent, code point 96, is written "U+0060"), and one
\* character outside ASCII
Ascii ==
  << " ", "!", "\"", "#", "$", "%", "&", "'", "(", ")", "*", "+", ",", "-",
     ".", "/", "0", "1", "2", "3", "4", "5", "6", "7", "8", "9", ":", ";",
     "<", "=", ">", "?", "@", "A", "B", "C", "D", "E", "F", "G", "H", "I",
     "J", "K", "L", "M", "N", "O", "P", "Q", "R", "S", "T", "U", "V", "W",
     "X", "Y", "Z", "[", "\\", "]", "^", "_", "U+0060", "a", "b", "c", "d",
     "e", "f", "g", "h", "i", "j", "k", "l", "m", "n", "o", "p", "q", "r",
     "s", "t", "u", "v", "w", "x", "y", "z", "{", "|", "}", "~" >>

\* a text is a sequence of characters, one per code point: a character of
\* the table (it starts at code point 32), a tab, line feed, form feed or
\* carriage return, "é" (U+00E9), "U+FFFD" (the replacement character) or,
\* for any other code point up to U+10FFFF, "U+" and its decimal number
\* code point of a character
codePoint(c) ==
  IF \E k \in 1..Len(Ascii) : Ascii[k] = c
  THEN 31 + CHOOSE k \in 1..Len(Ascii) : Ascii[k] = c
  ELSE IF c = "\t" THEN 9
  ELSE IF c = "\n" THEN 10
  ELSE IF c = "\f" THEN 12
  ELSE IF c = "\r" THEN 13
  ELSE IF c = "é" THEN 233
  ELSE IF c = "U+FFFD" THEN 65533
  ELSE CHOOSE n \in 0..1114111 : c = "U+" \o ToString(n)

\* character of a code point
charOf(cp) ==
  IF cp >= 32 /\ cp < 32 + Len(Ascii)
  THEN Ascii[cp - 31]
  ELSE IF cp = 9 THEN "\t"
  ELSE IF cp = 10 THEN "\n"
  ELSE IF cp = 12 THEN "\f"
  ELSE IF cp = 13 THEN "\r"
  ELSE IF cp = 233 THEN "é"
  ELSE IF cp = 65533 THEN "U+FFFD"
  ELSE "U+" \o ToString(cp)

\* UTF-8 bytes of a code point; a surrogate (a lone one in a JavaScript
\* string) is written as U+FFFD
utf8Encode(cp) ==
  IF cp < 128 THEN <<cp>>
  ELSE IF cp < 2048 THEN <<192 + (cp \div 64), 128 + (cp % 64)>>
  ELSE IF cp >= 55296 /\ cp <= 57343 THEN <<239, 191, 189>>
  ELSE IF cp < 65536
  THEN <<224 + (cp \div 4096), 128 + ((cp \div 64) % 64), 128 + (cp % 64)>>
  ELSE <<240 + (cp \div 262144), 128 + ((cp \div 4096) % 64),
         128 + ((cp \div 64) % 64), 128 + (cp % 64)>>

HexDigits ==
  <<"0", "1", "2", "3", "4", "5", "6", "7", "8", "9",
    "A", "B", "C", "D", "E", "F">>

\* "%" and two upper-case hexadecimal digits for each byte
RECURSIVE percentEncodeAll(_)
percentEncodeAll(bytes) ==
  IF Len(bytes) = 0 THEN << >>
  ELSE <<"%", HexDigits[(bytes[1] \div 16) + 1],
              HexDigits[(bytes[1] % 16) + 1]>>
         \o percentEncodeAll(Tail(bytes))

\* the characters the serialiser leaves as they are: ASCII letters and
\* digits, "*", "-", "." and "_"
isFormSafe(c) ==
  LET cp == codePoint(c)
  IN \/ cp \in 48..57
     \/ cp \in 65..90
     \/ cp \in 97..122
     \/ c \in {"*", "-", ".", "_"}

\* application/x-www-form-urlencoded serialisation of one character: a space
\* becomes "+", a safe character stays, every other character is the
\* percent-encoding of its UTF-8 bytes
formEncodeChar(c) ==
  IF c = " " THEN <<"+">>
  ELSE IF isFormSafe(c) THEN <<c>>
  ELSE percentEncodeAll(utf8Encode(codePoint(c)))

RECURSIVE formEncode(_)
formEncode(s) ==
  IF Len(s) = 0 THEN << >> ELSE formEncodeChar(s[1]) \o formEncode(Tail(s))

\* URLSearchParams.toString(): name=value pairs joined by "&"
RECURSIVE serialize(_)
serialize(pairs) ==
  IF Len(pairs) = 0 THEN << >>
  ELSE formEncode(pairs[1].key) \o <<"=">> \o formEncode(pairs[1].value)
         \o (IF Len(pairs) = 1 THEN << >>
             ELSE <<"&">> \o serialize(Tail(pairs)))

\* value of a hexadecimal digit, upper or lower case; -1 for another
\* character
hexValue(c) ==
  LET lower == <<"a", "b", "c", "d", "e", "f">>
  IN IF \E k \in 1..16 : HexDigits[k] = c
     THEN (CHOOSE k \in 1..16 : HexDigits[k] = c) - 1
     ELSE IF \E k \in 1..6 : lower[k] = c
     THEN 9 + CHOOSE k \in 1..6 : lower[k] = c
     ELSE -1

\* the byte %hi lo stands for; -1 when hi or lo is not a hexadecimal digit
percentDecoded(hi, lo) ==
  IF hexValue(hi) = -1 \/ hexValue(lo) = -1 THEN -1
  ELSE 16 * hexValue(hi) + hexValue(lo)

\* form-urlencoded parsing, first half: "+" is the byte of a space, %XX with
\* two hexadecimal digits is the byte XX, any other character (a "%" not
\* followed by two hexadecimal digits too) gives its UTF-8 bytes
RECURSIVE formBytes(_)
formBytes(s) ==
  IF Len(s) = 0 THEN << >>
  ELSE IF s[1] = "+" THEN <<32>> \o formBytes(Tail(s))
  ELSE IF s[1] = "%" /\ Len(s) >= 3 /\ percentDecoded(s[2], s[3]) # -1
       THEN <<percentDecoded(s[2], s[3])>> \o formBytes(SubSeq(s, 4, Len(s)))
  ELSE utf8Encode(codePoint(s[1])) \o formBytes(Tail(s))

\* UTF-8 decoding (the decoder of the Encoding standard, no byte order mark
\* handling): a lead byte announces one to three continuation bytes, the
\* first of them within bounds that exclude overlong forms, surrogates and
\* code points above U+10FFFF.  A sequence cut short by a byte that does not
\* continue it, or by the end of the bytes, is one U+FFFD and decoding goes on
\* at the byte that cut it; a byte that starts no sequence is one U+FFFD
RECURSIVE utf8Decode(_)
utf8Decode(bytes) ==
  LET lead   == bytes[1]
      needed == IF lead >= 194 /\ lead <= 223 THEN 1
                ELSE IF lead >= 224 /\ lead <= 239 THEN 2
                ELSE IF lead >= 240 /\ lead <= 244 THEN 3
                ELSE 0
      lower  == IF lead = 224 THEN 160 ELSE IF lead = 240 THEN 144 ELSE 128
      upper  == IF lead = 237 THEN 159 ELSE IF lead = 244 THEN 143 ELSE 191
      continues(k) ==
        /\ k + 1 <= Len(bytes)
        /\ bytes[k + 1] >= (IF k = 1 THEN lower ELSE 128)
        /\ bytes[k + 1] <= (IF k = 1 THEN upper ELSE 191)
      \* continuation bytes read before the sequence ends or is cut short
      seen   == CHOOSE k \in 0..needed :
                  /\ \A j \in 1..k : continues(j)
                  /\ k < needed => ~continues(k + 1)
      bits(k) == bytes[k + 1] - 128
      cp     == IF needed = 1 THEN (lead - 192) * 64 + bits(1)
                ELSE IF needed = 2
                THEN (lead - 224) * 4096 + bits(1) * 64 + bits(2)
                ELSE (lead - 240) * 262144 + bits(1) * 4096
                       + bits(2) * 64 + bits(3)
  IN IF Len(bytes) = 0 THEN << >>
     ELSE IF lead < 128
          THEN <<charOf(lead)>> \o utf8Decode(Tail(bytes))
     ELSE IF needed > 0 /\ seen = needed
          THEN <<charOf(cp)>> \o utf8Decode(SubSeq(bytes, needed + 2, Len(bytes)))
     ELSE <<"U+FFFD">> \o utf8Decode(SubSeq(bytes, seen + 2, Len(bytes)))

\* form-urlencoded parsing of a name or value
formDecode(s) == utf8Decode(formBytes(s))

\* position of the first sep in s, 0 when there is none
firstIndex(s, sep) ==
  IF \E k \in 1..Len(s) : s[k] = sep
  THEN CHOOSE k \in 1..Len(s) : s[k] = sep /\ \A j \in 1..(k - 1) : s[j] # sep
  ELSE 0

RECURSIVE split(_, _)
split(s, sep) ==
  IF firstIndex(s, sep) = 0 THEN <<s>>
  ELSE <<SubSeq(s, 1, firstIndex(s, sep) - 1)>>
         \o split(SubSeq(s, firstIndex(s, sep) + 1, Len(s)), sep)

\* one name=value piece of a query
parsePair(piece) ==
  LET k == firstIndex(piece, "=")
  IN IF k = 0 THEN [key |-> formDecode(piece), value |-> << >>]
     ELSE [key   |-> formDecode(SubSeq(piece, 1, k - 1)),
           value |-> formDecode(SubSeq(piece, k + 1, Len(piece)))]

\* the URLSearchParams of a query (useSearchParams()): the pairs of the
\* non-empty pieces between "&"
parseQuery(q) ==
  LET pieces == SelectSeq(split(q, "&"), LAMBDA piece : Len(piece) > 0)
  IN [k \in 1..Len(pieces) |-> parsePair(pieces[k])]

\* URLSearchParams.get: the value of the first pair with this name, or null
searchParamsGet(pairs, key) ==
  IF \E k \in 1..Len(pairs) : pairs[k].key = key
  THEN Str(pairs[CHOOSE k \in 1..Len(pairs) :
                   /\ pairs[k].key = key
                   /\ \A j \in 1..(k - 1) : pairs[j].key # key].value)
  ELSE NullStr

\* JavaScript truthiness of a string or null
truthy(str) == str.present /\ Len(str.text) > 0

\* the URL: origin, "/?" and the serialised parameters b and, when the
\* bracket has a user name, name
generateShareableUrl(b, base) ==
  LET encoded == encodeBracketPicks(b)
      withB   == << [key |-> KeyB, value |-> encoded] >>
      all     == IF Len(b.userName) > 0
                 THEN Append(withB, [key |-> KeyName, value |-> b.userName])
                 ELSE withB
  IN base \o <<"/", "?">> \o serialize(all)

\* the query of a URL: what follows its first "?"
queryOf(url) ==
  IF firstIndex(url, "?") = 0 THEN << >>
  ELSE SubSeq(url, firstIndex(url, "?") + 1, Len(url))

NoViewMode == "null"

parseUrlParams(searchParams) ==
  [ encodedBracket |-> searchParamsGet(searchParams, KeyB),
    userName       |-> searchParamsGet(searchParams, KeyName),
    viewMode       |-> IF searchParamsGet(searchParams, KeyView) = Str(Live)
                       THEN "live" ELSE NoViewMode ]

\* useUrlState: the decode and apply run inside try / catch
useUrlState(searchParams) ==
  LET p   == parseUrlParams(searchParams)
      dec == decodeBracketPicks(p.encodedBracket.text)
  IN [ isSharedBracket    |-> truthy(p.encodedBracket),
       sharedBracketOwner |-> p.userName,
       initialViewMode    |-> p.viewMode,
       sharedBracket      |->
         IF truthy(p.encodedBracket) /\ ~dec.threw
         THEN applyPicksToFreshBracket(
                dec.codes,
                IF truthy(p.userName) THEN p.userName.text
                ELSE DefaultUserName)
         ELSE NoBracket ]

(***************************************************************************)
(* SpecUrl: a bracket is shared as a URL and the URL's query is parsed;    *)
(* a page is opened with a query and useUrlState reads it                  *)
(***************************************************************************)
MaxNameLen == 2

NameChars == {"A", " ", "&", "=", "+", "%", "'", "é"}

\* names with a character outside the table ("U+241" is U+00F1) and with a
\* surrogate that stands alone ("U+55296" is U+D800)
OtherNames == { <<"U+241">>, <<"U+55296">>, <<"A", "U+55296">> }

\* owner names: every text of NameChars up to MaxNameLen, and OtherNames
UserNames ==
  UNION { [1..n -> NameChars] : n \in 0..MaxNameLen } \cup OtherNames

UrlBrackets ==
  { [sampleBracket(t) EXCEPT !.userName = name] :
      t \in { <<"A", "A", "A", "A", "A", "A">>,
              <<"V", "V", "V", "V", "A", "Q">>,
              <<"m", "Z", "Z", "p", "A", "Q">> },
      name \in UserNames }

\* window.location.origin, or "" where there is no window
Origins == { << >>, <<"h", ":", "/", "/", "x">> }

\* values of the b parameter of an opened page: absent, empty, tokens that
\* decode (one of them followed by a tab), and tokens on which
\* decodeBracketPicks throws
LinkTokens ==
  { NullStr,
    Str(<< >>),
    Str(<<"A", "A", "A", "A", "A", "A">>),
    Str(<<"V", "V", "V", "V", "A", "Q">>),
    Str(<<"_", "_", "_", "_", "_", "w">>),
    Str(<<"V", "V", "V", "V", "A", "Q", "\t">>),
    Str(<<"A", "A">>),
    Str(<<"A">>),
    Str(<<"A", "=", "A", "A">>) }

LinkNames == { NullStr, Str(<< >>), Str(<<"A", " ">>) }

LinkViews ==
  { NullStr, Str(Live), Str(<<"L", "I", "V", "E">>), Str(<<"l", "i", "v">>) }

\* the pairs of the parameters that are present
pairsOf(p) ==
  (IF p.b.present THEN << [key |-> KeyB, value |-> p.b.text] >> ELSE << >>)
  \o (IF p.name.present
      THEN << [key |-> KeyName, value |-> p.name.text] >> ELSE << >>)
  \o (IF p.view.present
      THEN << [key |-> KeyView, value |-> p.view.text] >> ELSE << >>)

InitUrl == InitCommon

\* generateUrl(bracket): the query of the URL is kept
ShareUrl ==
  /\ pc = "idle"
  /\ \E b \in UrlBrackets, base \in Origins :
       /\ bracket' = b
       /\ query' = queryOf(generateShareableUrl(b, base))
  /\ pc' = "url"
  /\ UNCHANGED <<fresh, codes, token, decoded, reloaded, last, nOps,
                 gamesStarted, params, urlState,
                 dialogVars>>

\* parseUrlParams(new URLSearchParams(query))
ParseUrl ==
  /\ pc = "url"
  /\ urlState' = parseUrlParams(parseQuery(query))
  /\ pc' = "parsed"
  /\ UNCHANGED <<bracket, fresh, codes, token, decoded, reloaded, last, nOps,
                 gamesStarted, params, query,
                 dialogVars>>

\* a page is opened with the parameters b, name and view
OpenPage ==
  /\ pc = "idle"
  /\ \E b \in LinkTokens, name \in LinkNames, view \in LinkViews :
       /\ params' = [b |-> b, name |-> name, view |-> view]
       /\ query' = serialize(pairsOf(params'))
  /\ pc' = "page-url"
  /\ UNCHANGED <<bracket, fresh, codes, token, decoded, reloaded, last, nOps,
                 gamesStarted, urlState,
                 dialogVars>>

\* the useMemo callback of useUrlState on useSearchParams()
UseUrlState ==
  /\ pc = "page-url"
  /\ urlState' = useUrlState(parseQuery(query))
  /\ pc' = "urlState"
  /\ UNCHANGED <<bracket, fresh, codes, token, decoded, reloaded, last, nOps,
                 gamesStarted, params, query,
                 dialogVars>>

\* a button of SharedBracketBanner: the handler calls router.push("/") and
\* then the callback the banner was given, and returns; useUrlState still
\* has the state of the old URL
BannerClick(callback) ==
  /\ pc = "urlState"
  /\ last' = [via |-> "SharedBracketBanner", call |-> callback, id |-> "",
              team |-> Null, before |-> bracket, gameStarted |-> FALSE]
  /\ pc' = "pushed"
  /\ UNCHANGED <<bracket, fresh, codes, token, decoded, reloaded, nOps,
                 gamesStarted, params, query, urlState,
                 dialogVars>>

HandleStartOwn == BannerClick("onStartOwn")

HandleCopyEdit == BannerClick("onCopyEdit")

\* the navigation of router.push("/") is done: the URL of the page has no
\* query, useSearchParams() gives new parameters and the useMemo callback of
\* useUrlState is to run on them
PushedHome ==
  /\ pc = "pushed"
  /\ query' = NoQuery
  /\ params' = [b |-> NullStr, name |-> NullStr, view |-> NullStr]
  /\ pc' = "page-url"
  /\ UNCHANGED <<bracket, fresh, codes, token, decoded, reloaded, last, nOps,
                 gamesStarted, urlState,
                 dialogVars>>

NextUrl ==
  \/ ShareUrl
  \/ ParseUrl
  \/ OpenPage
  \/ UseUrlState
  \/ HandleStartOwn
  \/ HandleCopyEdit
  \/ PushedHome

SpecUrl == InitUrl /\ [][NextUrl]_vars

(***************************************************************************)
(* Properties of SpecUrl                                                   *)
(***************************************************************************)
\* C17: when decoding the b parameter fails, useUrlState does not throw and
\* the URL is treated as non-shared: sharedBracket is null and
\* isSharedBracket is false.
C17_DecodeFailureIsNonShared ==
  ( /\ pc = "urlState"
    /\ truthy(params.b)
    /\ decodeBracketPicks(params.b.text).threw )
  => /\ urlState.sharedBracket = NoBracket
     /\ urlState.isSharedBracket = FALSE

\* C19 (as claimed): parseUrlParams on the query of generateShareableUrl(S)
\* gives encodedBracket = encodeBracketPicks(S); userName = S.userName when
\* that is not empty, and otherwise the query has no name parameter and
\* userName is null.  viewMode is "live" exactly when the view parameter is
\* "live", and null otherwise.
C19_UrlRoundTrip ==
  /\ pc = "parsed" =>
       /\ urlState.encodedBracket = Str(encodeBracketPicks(bracket))
       /\ IF Len(bracket.userName) > 0
          THEN urlState.userName = Str(bracket.userName)
          ELSE /\ urlState.userName = NullStr
               /\ \A k \in 1..Len(parseQuery(query)) :
                    parseQuery(query)[k].key # KeyName
       /\ urlState.viewMode = NoViewMode
  /\ pc = "urlState" =>
       urlState.initialViewMode
         = IF params.view = Str(Live) THEN "live" ELSE NoViewMode

isSurrogate(c) == codePoint(c) >= 55296 /\ codePoint(c) <= 57343

\* a name without a surrogate that stands alone
isWellFormed(name) == \A k \in 1..Len(name) : ~isSurrogate(name[k])

\* the name with U+FFFD in the place of every such surrogate
scalarValues(name) ==
  [k \in 1..Len(name) |-> IF isSurrogate(name[k]) THEN "U+FFFD" ELSE name[k]]

\* C19 (amended): as claimed for every S whose userName is well-formed
\* Unicode; of any non-empty userName, parseUrlParams returns the name with
\* U+FFFD in the place of each surrogate that stands alone.  The viewMode
\* parseUrlParams returns, and useUrlState hands on as initialViewMode, is
\* "live" exactly when the view parameter is "live", and null otherwise.
C19_UrlRoundTripWellFormed ==
  /\ pc = "parsed" =>
       /\ urlState.encodedBracket = Str(encodeBracketPicks(bracket))
       /\ IF Len(bracket.userName) > 0
          THEN /\ urlState.userName = Str(scalarValues(bracket.userName))
               /\ isWellFormed(bracket.userName)
                    => urlState.userName = Str(bracket.userName)
          ELSE /\ urlState.userName = NullStr
               /\ \A k \in 1..Len(parseQuery(query)) :
                    parseQuery(query)[k].key # KeyName
       /\ urlState.viewMode = NoViewMode
  /\ pc \in {"page-url", "urlState", "pushed"} =>
       parseUrlParams(parseQuery(query)).viewMode
         = IF params.view = Str(Live) THEN "live" ELSE NoViewMode
  /\ pc = "urlState" =>
       urlState.initialViewMode
         = IF params.view = Str(Live) THEN "live" ELSE NoViewMode

\* a bracket whose owner's name needs escaping came back from its URL
C19_Witness ==
  /\ pc = "parsed"
  /\ bracket.userName = <<"é", "&">>
  /\ bracket.isComplete
  /\ urlState.userName = Str(<<"é", "&">>)
  /\ urlState.encodedBracket = Str(<<"V", "V", "V", "V", "A", "Q">>)

(***************************************************************************)
(* Game dialog: GameDialogProvider (contexts/GameDialogContext) with its   *)
(* collaborators useDeepLink (URL state) and useBracket (live data)        *)
(***************************************************************************)
\* getLiveResultForMatchup(id) when there is no live result
NoResult == [none |-> TRUE]

\* LiveGameInfo["round"] of the matchup at index i of getAllMatchupsOrdered
roundName(i) ==
  IF i <= 5 THEN "wildCard"
  ELSE IF i <= 9 THEN "divisional"
  ELSE IF i <= 11 THEN "conference"
  ELSE "superBowl"

\* a LiveGameInfo
gameInfo(matchup, liveResult, conference, round) ==
  [ matchup    |-> matchup,
    liveResult |-> liveResult,
    conference |-> conference,
    round      |-> round ]

\* useBracket().getLiveResultForMatchup
getLiveResultForMatchup(lv, matchupId) ==
  IF matchupId \in lv.results THEN [matchupId |-> matchupId] ELSE NoResult

\* useBracket().getAllLiveGames: a game for each matchup with a live game
getAllLiveGames(b, lv) ==
  { gameInfo(getAllMatchupsOrdered(b)[i],
             [matchupId |-> getAllMatchupsOrdered(b)[i].id],
             conferenceOfIndex(i), roundName(i)) :
      i \in { j \in 0..12 : getAllMatchupsOrdered(b)[j].id \in lv.games } }

\* Array.prototype.find on m.id === matchupId; NoMatchup when undefined
arrayFind(matchups, matchupId) ==
  IF \E k \in 1..Len(matchups) : matchups[k].id = matchupId
  THEN matchups[CHOOSE k \in 1..Len(matchups) :
                  /\ matchups[k].id = matchupId
                  /\ \A j \in 1..(k - 1) : matchups[j].id # matchupId]
  ELSE NoMatchup

\* bracket.afc.championship?.id === matchupId, same for the Super Bowl
hasId(matchup, matchupId) == matchup # NoMatchup /\ matchup.id = matchupId

\* faulty variant of findGameByMatchupId: a matchup of the bracket is a game
\* even without a live result
findGameByMatchupId_noResultCheck(b, lv, matchupId) ==
  LET i == indexOfMatchup(b, matchupId)
  IN IF i = -1 THEN NoGame
     ELSE gameInfo(getAllMatchupsOrdered(b)[i], NoResult,
                   conferenceOfIndex(i), roundName(i))

findGameByMatchupId(b, lv, matchupId) ==
  LET liveGames == getAllLiveGames(b, lv)
      afcWc  == arrayFind(b.afc.wildCard, matchupId)
      nfcWc  == arrayFind(b.nfc.wildCard, matchupId)
      afcDiv == arrayFind(b.afc.divisional, matchupId)
      nfcDiv == arrayFind(b.nfc.divisional, matchupId)
      at(matchup, conference, round) ==
        [matchup |-> matchup, conference |-> conference, round |-> round]
      located ==
        IF afcWc # NoMatchup THEN at(afcWc, "AFC", "wildCard")
        ELSE IF nfcWc # NoMatchup THEN at(nfcWc, "NFC", "wildCard")
        ELSE IF afcDiv # NoMatchup THEN at(afcDiv, "AFC", "divisional")
        ELSE IF nfcDiv # NoMatchup THEN at(nfcDiv, "NFC", "divisional")
        ELSE IF hasId(b.afc.championship, matchupId)
             THEN at(b.afc.championship, "AFC", "conference")
        ELSE IF hasId(b.nfc.championship, matchupId)
             THEN at(b.nfc.championship, "NFC", "conference")
        ELSE IF hasId(b.superBowl, matchupId)
             THEN at(b.superBowl, "superBowl", "superBowl")
        ELSE at(NoMatchup, "AFC", "wildCard")
      liveResult == getLiveResultForMatchup(lv, matchupId)
  IN IF \E g \in liveGames : g.matchup.id = matchupId
     THEN CHOOSE g \in liveGames : g.matchup.id = matchupId
     ELSE IF located.matchup = NoMatchup THEN NoGame
     ELSE IF liveResult = NoResult THEN NoGame
     ELSE gameInfo(located.matchup, liveResult,
                   located.conference, located.round)

matchupIdToGameId(matchupId) == matchupId

gameIdToMatchupId(gameId) == gameId

\* calls of the functions useDeepLink returns
openGame(gameId, tab) == [op |-> "openGame", gameId |-> gameId, tab |-> tab]

closeGame == [op |-> "closeGame", gameId |-> NoGameId, tab |-> NoTab]

setTab(tab) == [op |-> "setTab", gameId |-> NoGameId, tab |-> tab]

\* what a step of the provider leaves: the two states it sets, whether
\* setIsInitialized(true) was reached, the useDeepLink calls it made and the
\* ids it looked up with findGameByMatchupId
Outcome(game, tab, initialized, calls, lookups) ==
  [ selectedGame |-> game,
    activeTab    |-> tab,
    initialized  |-> initialized,
    calls        |-> calls,
    lookups      |-> lookups ]

\* faulty variant of syncEffect: an unresolved game id leaves the URL alone
syncEffect_keepsUrl(hydrated, url, game, tab, b, lv) ==
  IF ~hydrated THEN Outcome(game, tab, FALSE, << >>, << >>)
  ELSE IF url.gameId # NoGameId
  THEN LET matchupId == gameIdToMatchupId(url.gameId)
           found     == findGameByMatchupId(b, lv, matchupId)
       IN IF game = NoGame \/ game.matchup.id # matchupId
          THEN IF found # NoGame
               THEN Outcome(found, url.tab, TRUE, << >>, <<matchupId>>)
               ELSE Outcome(NoGame, DefaultTab, TRUE, << >>,
                            <<matchupId>>)
          ELSE Outcome(game, url.tab, TRUE, << >>, << >>)
  ELSE IF game # NoGame
  THEN Outcome(NoGame, DefaultTab, TRUE, << >>, << >>)
  ELSE Outcome(game, tab, TRUE, << >>, << >>)

\* faulty variant of syncEffect: back navigation also calls closeGame
syncEffect_closesOnBack(hydrated, url, game, tab, b, lv) ==
  IF ~hydrated THEN Outcome(game, tab, FALSE, << >>, << >>)
  ELSE IF url.gameId # NoGameId
  THEN LET matchupId == gameIdToMatchupId(url.gameId)
           found     == findGameByMatchupId(b, lv, matchupId)
       IN IF game = NoGame \/ game.matchup.id # matchupId
          THEN IF found # NoGame
               THEN Outcome(found, url.tab, TRUE, << >>, <<matchupId>>)
               ELSE Outcome(NoGame, DefaultTab, TRUE, <<closeGame>>,
                            <<matchupId>>)
          ELSE Outcome(game, url.tab, TRUE, << >>, << >>)
  ELSE IF game # NoGame
  THEN Outcome(NoGame, DefaultTab, TRUE, <<closeGame>>, << >>)
  ELSE Outcome(game, tab, TRUE, << >>, << >>)

\* faulty variant of syncEffect: a game that is already selected is looked up again
syncEffect_reverifies(hydrated, url, game, tab, b, lv) ==
  IF ~hydrated THEN Outcome(game, tab, FALSE, << >>, << >>)
  ELSE IF url.gameId # NoGameId
  THEN LET matchupId == gameIdToMatchupId(url.gameId)
           found     == findGameByMatchupId(b, lv, matchupId)
       IN IF game = NoGame \/ game.matchup.id # matchupId
          THEN IF found # NoGame
               THEN Outcome(found, url.tab, TRUE, << >>, <<matchupId>>)
               ELSE Outcome(NoGame, DefaultTab, TRUE, <<closeGame>>,
                            <<matchupId>>)
          ELSE Outcome(found, url.tab, TRUE, << >>, <<matchupId>>)
  ELSE IF game # NoGame
  THEN Outcome(NoGame, DefaultTab, TRUE, << >>, << >>)
  ELSE Outcome(game, tab, TRUE, << >>, << >>)

\* faulty variant of syncEffect: isInitialized is set before hydration
syncEffect_beforeHydration(hydrated, url, game, tab, b, lv) ==
  IF ~hydrated THEN Outcome(game, tab, TRUE, << >>, << >>)
  ELSE IF url.gameId # NoGameId
  THEN LET matchupId == gameIdToMatchupId(url.gameId)
           found     == findGameByMatchupId(b, lv, matchupId)
       IN IF game = NoGame \/ game.matchup.id # matchupId
          THEN IF found # NoGame
               THEN Outcome(found, url.tab, TRUE, << >>, <<matchupId>>)
               ELSE Outcome(NoGame, DefaultTab, TRUE, <<closeGame>>,
                            <<matchupId>>)
          ELSE Outcome(game, url.tab, TRUE, << >>, << >>)
  ELSE IF game # NoGame
  THEN Outcome(NoGame, DefaultTab, TRUE, << >>, << >>)
  ELSE Outcome(game, tab, TRUE, << >>, << >>)

\* faulty variant of syncEffect: a URL without game leaves the dialog open
syncEffect_ignoresBack(hydrated, url, game, tab, b, lv) ==
  IF ~hydrated THEN Outcome(game, tab, FALSE, << >>, << >>)
  ELSE IF url.gameId # NoGameId
  THEN LET matchupId == gameIdToMatchupId(url.gameId)
           found     == findGameByMatchupId(b, lv, matchupId)
       IN IF game = NoGame \/ game.matchup.id # matchupId
          THEN IF found # NoGame
               THEN Outcome(found, url.tab, TRUE, << >>, <<matchupId>>)
               ELSE Outcome(NoGame, DefaultTab, TRUE, <<closeGame>>,
                            <<matchupId>>)
          ELSE Outcome(game, url.tab, TRUE, << >>, << >>)
  ELSE IF game # NoGame
  THEN Outcome(game, tab, TRUE, << >>, << >>)
  ELSE Outcome(game, tab, TRUE, << >>, << >>)

\* the URL sync effect (useEffect callback), run on the rendered values
syncEffect(hydrated, url, game, tab, b, lv) ==
  IF ~hydrated THEN Outcome(game, tab, FALSE, << >>, << >>)
  ELSE IF url.gameId # NoGameId
  THEN LET matchupId == gameIdToMatchupId(url.gameId)
           found     == findGameByMatchupId(b, lv, matchupId)
       IN IF game = NoGame \/ game.matchup.id # matchupId
          THEN IF found # NoGame
               THEN Outcome(found, url.tab, TRUE, << >>, <<matchupId>>)
               ELSE Outcome(NoGame, DefaultTab, TRUE, <<closeGame>>,
                            <<matchupId>>)
          ELSE Outcome(game, url.tab, TRUE, << >>, << >>)
  ELSE IF game # NoGame
  THEN Outcome(NoGame, DefaultTab, TRUE, << >>, << >>)
  ELSE Outcome(game, tab, TRUE, << >>, << >>)

\* tab || "stats"
tabOrDefault(tab) == IF tab = NoTab THEN DefaultTab ELSE tab

openGameDialog(game, tab) ==
  Outcome(game, tabOrDefault(tab), FALSE,
          <<openGame(matchupIdToGameId(game.matchup.id), tab)>>, << >>)

openGameDialogById(game, tab, b, lv, matchupId, openTab) ==
  LET found == findGameByMatchupId(b, lv, matchupId)
  IN IF found # NoGame
     THEN [openGameDialog(found, openTab) EXCEPT !.lookups = <<matchupId>>]
     ELSE Outcome(game, tab, FALSE, << >>, <<matchupId>>)

\* faulty variant of closeGameDialog: the URL keeps its game
closeGameDialog_keepsUrl == Outcome(NoGame, DefaultTab, FALSE, << >>, << >>)

closeGameDialog == Outcome(NoGame, DefaultTab, FALSE, <<closeGame>>, << >>)

setActiveTab(game, newTab) ==
  Outcome(game, newTab, FALSE,
          IF game # NoGame THEN <<setTab(newTab)>> ELSE << >>, << >>)

\* useDeepLink: the state after a URL write has taken effect
applyUrlUpdate(url, update) ==
  CASE update.op = "openGame" ->
         [gameId |-> update.gameId, tab |-> tabOrDefault(update.tab)]
    [] update.op = "closeGame" -> NoDeepLink
    [] OTHER -> [url EXCEPT !.tab = update.tab]

(***************************************************************************)
(* SpecDialog: a page is opened on a URL; useDeepLink hydrates; the user   *)
(* opens and closes game dialogs and switches tabs, navigates with the     *)
(* browser, picks teams and resets the bracket, and the live data changes. *)
(* URL writes made through useDeepLink reach its state in a later step;    *)
(* the sync effect runs after a render in which one of its dependencies    *)
(* changed.                                                                *)
(***************************************************************************)
MaxEvents == 2

\* TabId values: "stats" and one other tab
Tabs == {DefaultTab, "plays"}

\* game ids met in URLs and passed to openGameDialogById
DialogIds == {"afc-wc-1", "nfc-wc-2", UnknownId}

DeepLinks == { [gameId |-> g, tab |-> t] : g \in DialogIds \cup {NoGameId},
                                           t \in Tabs }

\* live data: none; AFC Wild Card 1 is a live game; NFC Wild Card 2 has a
\* live result as well
LiveStates ==
  { NoLive,
    [games |-> {"afc-wc-1"}, results |-> {"afc-wc-1"}],
    [games |-> {"afc-wc-1"}, results |-> {"afc-wc-1", "nfc-wc-2"}] }

\* the games the page can hand to openGameDialog
openableGames(b, lv) ==
  { findGameByMatchupId(b, lv, id) : id \in DialogIds } \ {NoGame}

\* what a step saw when it started
rendered ==
  [ selectedGame  |-> selectedGame,
    activeTab     |-> activeTab,
    isInitialized |-> isInitialized,
    isHydrated    |-> isHydrated,
    deepLink      |-> deepLink,
    live          |-> live ]

stepRecord(step, arg, r) ==
  [ step    |-> step,
    arg     |-> arg,
    before  |-> rendered,
    calls   |-> r.calls,
    lookups |-> r.lookups ]

NoArg == [id |-> NoGameId, tab |-> NoTab]

NoOutcome == Outcome(NoGame, DefaultTab, FALSE, << >>, << >>)

InitDialog ==
  /\ InitBracket
  /\ DialogMounted
  /\ deepLink \in DeepLinks
  /\ live \in LiveStates

\* useDeepLink reads the URL on the client
Hydrate ==
  /\ ~isHydrated
  /\ isHydrated' = TRUE
  /\ effectDue' = TRUE
  /\ lastStep' = stepRecord("hydrate", NoArg, NoOutcome)
  /\ UNCHANGED <<selectedGame, activeTab, isInitialized, deepLink, urlUpdates,
                 live, openedGame, nEvents, bracketVars>>

\* the useEffect callback runs
SyncEffect ==
  /\ effectDue
  /\ LET r == syncEffect(isHydrated, deepLink, selectedGame, activeTab,
                         bracket, live)
     IN /\ selectedGame' = r.selectedGame
        /\ activeTab' = r.activeTab
        /\ isInitialized' = (isInitialized \/ r.initialized)
        /\ urlUpdates' = urlUpdates \o r.calls
        /\ effectDue' = (r.selectedGame # selectedGame)
        /\ lastStep' = stepRecord("effect", NoArg, r)
  /\ UNCHANGED <<isHydrated, deepLink, live, openedGame, nEvents, bracketVars>>

\* a callback of the context value runs with outcome r.  The effect depends
\* on selectedGame and runs again when the state holds another object than
\* before (Object.is): another value, or, with newObject, an object with the
\* same value that is not the one selected
Handled(step, arg, r, opened, newObject) ==
  /\ nEvents < MaxEvents
  /\ selectedGame' = r.selectedGame
  /\ activeTab' = r.activeTab
  /\ urlUpdates' = urlUpdates \o r.calls
  /\ effectDue' = (effectDue \/ r.selectedGame # selectedGame \/ newObject)
  /\ openedGame' = opened
  /\ lastStep' = stepRecord(step, arg, r)
  /\ nEvents' = nEvents + 1
  /\ UNCHANGED <<isInitialized, isHydrated, deepLink, live, bracketVars>>

\* liveGames.find(...) of findGameByMatchupId returns an object of
\* getAllLiveGames(); otherwise a found game is an object built by the call
isLiveGame(b, lv, matchupId) ==
  \E g \in getAllLiveGames(b, lv) : g.matchup.id = matchupId

\* the page hands over a game: the selected object itself or another object
OpenGameDialog ==
  \E game \in openableGames(bracket, live), tab \in {NoTab, "plays"},
     newObject \in BOOLEAN :
    Handled("openGameDialog", [id |-> game.matchup.id, tab |-> tab],
            openGameDialog(game, tab),
            IF isHydrated THEN game ELSE NoGame,
            newObject)

\* the game comes from findGameByMatchupId: built by the call, it is an
\* object the state never held; taken from getAllLiveGames() it is the
\* selected object or another one
OpenGameDialogById ==
  \E matchupId \in DialogIds, tab \in {NoTab, "plays"},
     newObject \in BOOLEAN :
    /\ findGameByMatchupId(bracket, live, matchupId) = NoGame => ~newObject
    /\ ( /\ findGameByMatchupId(bracket, live, matchupId) # NoGame
         /\ ~isLiveGame(bracket, live, matchupId) ) => newObject
    /\ Handled("openGameDialogById", [id |-> matchupId, tab |-> tab],
               openGameDialogById(selectedGame, activeTab, bracket, live,
                                  matchupId, tab),
               NoGame,
               newObject)

CloseGameDialog ==
  Handled("closeGameDialog", NoArg, closeGameDialog, NoGame, FALSE)

SetActiveTab ==
  \E tab \in Tabs :
    Handled("setActiveTab", [id |-> NoGameId, tab |-> tab],
            setActiveTab(selectedGame, tab), openedGame, FALSE)

\* the opened game stops being tracked once the URL shows another game or
\* none
stillOpened(url) ==
  IF openedGame # NoGame /\ url.gameId = openedGame.matchup.id
  THEN openedGame ELSE NoGame

\* a URL write made through useDeepLink reaches its state
UrlUpdate ==
  /\ urlUpdates # << >>
  /\ deepLink' = applyUrlUpdate(deepLink, Head(urlUpdates))
  /\ urlUpdates' = Tail(urlUpdates)
  /\ effectDue' = (effectDue \/ deepLink' # deepLink)
  /\ openedGame' = stillOpened(deepLink')
  /\ lastStep' = stepRecord("urlUpdate", NoArg, NoOutcome)
  /\ UNCHANGED <<selectedGame, activeTab, isInitialized, isHydrated, live,
                 nEvents, bracketVars>>

\* browser back / forward on the hydrated page: the URL becomes another one
\* (the URL the page is opened on is chosen in InitDialog)
Navigate ==
  /\ nEvents < MaxEvents
  /\ isHydrated
  /\ urlUpdates = << >>
  /\ \E url \in DeepLinks \ {deepLink} :
       /\ deepLink' = url
       /\ openedGame' = NoGame
  /\ effectDue' = TRUE
  /\ lastStep' = stepRecord("navigate", NoArg, NoOutcome)
  /\ nEvents' = nEvents + 1
  /\ UNCHANGED <<selectedGame, activeTab, isInitialized, isHydrated,
                 urlUpdates, live, bracketVars>>

\* the live data changes: getAllLiveGames and getLiveResultForMatchup, and
\* with them findGameByMatchupId, are new functions
LiveUpdate ==
  /\ nEvents < MaxEvents
  /\ \E lv \in LiveStates \ {live} : live' = lv
  /\ effectDue' = TRUE
  /\ lastStep' = stepRecord("liveUpdate", NoArg, NoOutcome)
  /\ nEvents' = nEvents + 1
  /\ UNCHANGED <<selectedGame, activeTab, isInitialized, isHydrated, deepLink,
                 urlUpdates, openedGame, bracketVars>>

\* team cards clicked while the provider is mounted: the home team of a
\* matchup whose game a dialog shows
Picks == {<<"afc-wc-1", "home">>}

\* the brackets useBracket() can hold after one change made from the page: a
\* click on a team card that reaches selectWinner or clearWinner
\* (Matchup.handleSelect), or a confirmed reset (BracketControls.handleReset)
\* that keeps the owner's name
bracketsAfter(b) ==
  { dispatch(b, onClick(getAllMatchupsOrdered(b)[indexOfMatchup(b, x[1])],
                        x[2])) :
      x \in { y \in Picks :
                onClick(getAllMatchupsOrdered(b)[indexOfMatchup(b, y[1])],
                        y[2]).call # "none" } }
    \cup { handleReset(b, TRUE, b.userName) }

\* the bracket changes: findGameByMatchupId depends on it and is a new
\* function, so the effect runs again; a call that leaves the bracket as it
\* was may hand back the same object, and then nothing is rendered
BracketUpdate ==
  /\ nEvents < MaxEvents
  /\ \E b \in bracketsAfter(bracket), due \in BOOLEAN :
       /\ bracket' = b
       /\ b # bracket => due
       /\ effectDue' = (effectDue \/ due)
  /\ lastStep' = stepRecord("bracketUpdate", NoArg, NoOutcome)
  /\ nEvents' = nEvents + 1
  /\ UNCHANGED <<fresh, pc, codes, token, decoded, reloaded, last, nOps,
                 gamesStarted, params, query, urlState>>
  /\ UNCHANGED <<selectedGame, activeTab, isInitialized, isHydrated, deepLink,
                 urlUpdates, live, openedGame>>

NextDialog ==
  \/ Hydrate
  \/ SyncEffect
  \/ OpenGameDialog
  \/ OpenGameDialogById
  \/ CloseGameDialog
  \/ SetActiveTab
  \/ UrlUpdate
  \/ Navigate
  \/ LiveUpdate
  \/ BracketUpdate

SpecDialog == InitDialog /\ [][NextDialog]_vars

(***************************************************************************)
(* Properties of SpecDialog                                                *)
(***************************************************************************)
\* C22 (as claimed): after openGameDialog(game, tab) on a hydrated page,
\* selectedGame stays equal to game, however the sync effect interleaves
\* with the URL write issued by openGame, until closeGameDialog (or another
\* callback that opens a dialog) is called or the URL shows a different game
\* or none.  Whether it holds depends on useDeepLink alone: it fails when the
\* effect runs between the call of openGame and the change of urlState (the
\* steps OpenGameDialog, SyncEffect, UrlUpdate), and it holds when openGame
\* changes urlState in the render that shows the new selectedGame (UrlUpdate
\* before SyncEffect).
C22_OpenedDialogStays ==
  openedGame # NoGame => selectedGame = openedGame

\* the id resolves to no game: it is not a live game, and it is the id of no
\* matchup of the bracket or of one without a live result
Unresolvable(lv, id) ==
  /\ id \notin lv.games
  /\ indexOfMatchup(bracket, id) = -1 \/ id \notin lv.results

\* the sync effect has just run on a hydrated page
EffectRan == lastStep.step = "effect" /\ lastStep.before.isHydrated

\* C23: when the sync effect runs hydrated with a URL gameId that resolves
\* to no game (unknown matchup id, or a matchup without live result) and no
\* game with that id is selected, it calls closeGame and leaves selectedGame
\* null and activeTab "stats", whatever game was selected before.
C23_UnresolvedGameClearsUrl ==
  ( /\ EffectRan
    /\ lastStep.before.deepLink.gameId # NoGameId
    /\ \/ lastStep.before.selectedGame = NoGame
       \/ lastStep.before.selectedGame.matchup.id
            # lastStep.before.deepLink.gameId
    /\ Unresolvable(lastStep.before.live, lastStep.before.deepLink.gameId) )
  => /\ lastStep.calls = <<closeGame>>
     /\ selectedGame = NoGame
     /\ activeTab = DefaultTab

\* the dialog of AFC Wild Card 1 was open when the URL turned to NFC Wild
\* Card 2, which has no live result: the URL is cleared, the dialog closed
C23_Witness ==
  /\ EffectRan
  /\ lastStep.before.deepLink.gameId = "nfc-wc-2"
  /\ lastStep.before.selectedGame # NoGame
  /\ lastStep.before.selectedGame.matchup.id = "afc-wc-1"
  /\ lastStep.before.activeTab = "plays"
  /\ "nfc-wc-2" \notin lastStep.before.live.results
  /\ lastStep.calls = <<closeGame>>
  /\ selectedGame = NoGame
  /\ activeTab = DefaultTab

\* C24: back navigation.  Whenever the sync effect runs hydrated with no
\* gameId in the URL while a game is selected, selectedGame becomes null,
\* activeTab becomes "stats", and closeGame is not called.
C24_BackNavigationCloses ==
  ( /\ EffectRan
    /\ lastStep.before.deepLink.gameId = NoGameId
    /\ lastStep.before.selectedGame # NoGame )
  => /\ selectedGame = NoGame
     /\ activeTab = DefaultTab
     /\ \A k \in 1..Len(lastStep.calls) : lastStep.calls[k] # closeGame

\* the browser went back from a URL with a game, opened on its "plays" tab,
\* to a URL without game
C24_Witness ==
  /\ EffectRan
  /\ lastStep.before.deepLink.gameId = NoGameId
  /\ lastStep.before.selectedGame # NoGame
  /\ lastStep.before.activeTab = "plays"
  /\ selectedGame = NoGame
  /\ activeTab = DefaultTab
  /\ lastStep.calls = << >>
  /\ urlUpdates = << >>

\* C25: when the URL gameId is the id of the game already selected, the sync
\* effect does not call findGameByMatchupId and leaves selectedGame as it
\* is; it only sets activeTab to the URL's tab.
C25_SelectedGameNotLookedUp ==
  ( /\ EffectRan
    /\ lastStep.before.deepLink.gameId # NoGameId
    /\ lastStep.before.selectedGame # NoGame
    /\ lastStep.before.selectedGame.matchup.id
         = lastStep.before.deepLink.gameId )
  => /\ lastStep.lookups = << >>
     /\ selectedGame = lastStep.before.selectedGame
     /\ activeTab = lastStep.before.deepLink.tab
     /\ lastStep.calls = << >>

\* the dialog of NFC Wild Card 2 stays open on the URL's tab although the
\* live data no longer has a result for it
C25_Witness ==
  /\ EffectRan
  /\ lastStep.before.deepLink = [gameId |-> "nfc-wc-2", tab |-> "plays"]
  /\ lastStep.before.selectedGame # NoGame
  /\ lastStep.before.selectedGame.matchup.id = "nfc-wc-2"
  /\ lastStep.before.activeTab = DefaultTab
  /\ findGameByMatchupId(bracket, lastStep.before.live, "nfc-wc-2") = NoGame
  /\ selectedGame = lastStep.before.selectedGame
  /\ activeTab = "plays"

\* C26: isInitialized is false in every state before hydration; it becomes
\* true when the sync effect first runs after hydration, and by no other
\* step; it never returns to false; before hydration the effect changes
\* neither selectedGame nor activeTab.
C26_InitializedAfterHydration ==
  /\ [](~isHydrated => ~isInitialized)
  /\ [](EffectRan => isInitialized)
  /\ []((lastStep.step = "effect" /\ ~lastStep.before.isHydrated) =>
          /\ selectedGame = lastStep.before.selectedGame
          /\ activeTab = lastStep.before.activeTab)
  /\ [][ /\ isInitialized => isInitialized'
         /\ (~isInitialized /\ isInitialized') =>
              (isHydrated /\ lastStep'.step = "effect") ]_vars

\* after at least one user or navigation event, the effect ran on the
\* hydrated page for the first time and isInitialized turned true
C26_Witness ==
  /\ EffectRan
  /\ ~lastStep.before.isInitialized
  /\ isInitialized
  /\ nEvents > 0

\* C27: closeGameDialog always sets selectedGame to null and activeTab to
\* "stats" and calls closeGame; setActiveTab(tab) always sets activeTab to
\* tab and calls setTab(tab) only when a game is selected;
\* openGameDialogById changes no state and no URL when the id resolves to no
\* game.
C27_CallbackEffects ==
  /\ lastStep.step = "closeGameDialog" =>
       /\ selectedGame = NoGame
       /\ activeTab = DefaultTab
       /\ lastStep.calls = <<closeGame>>
  /\ lastStep.step = "setActiveTab" =>
       /\ activeTab = lastStep.arg.tab
       /\ selectedGame = lastStep.before.selectedGame
       /\ lastStep.calls = IF lastStep.before.selectedGame # NoGame
                           THEN <<setTab(lastStep.arg.tab)>> ELSE << >>
  /\ ( /\ lastStep.step = "openGameDialogById"
       /\ Unresolvable(lastStep.before.live, lastStep.arg.id) ) =>
       /\ selectedGame = lastStep.before.selectedGame
       /\ activeTab = lastStep.before.activeTab
       /\ lastStep.calls = << >>
       /\ deepLink = lastStep.before.deepLink

\* a dialog open on its "plays" tab was closed
C27_Witness ==
  /\ lastStep.step = "closeGameDialog"
  /\ lastStep.before.selectedGame # NoGame
  /\ lastStep.before.activeTab = "plays"
  /\ selectedGame = NoGame
  /\ activeTab = DefaultTab
  /\ urlUpdates # << >>
  /\ urlUpdates[Len(urlUpdates)] = closeGame

(***************************************************************************)
(* SpecDialogLive: SpecDialog with its scheduling.  Hydration happens, a   *)
(* due effect runs, and a URL write issued reaches the URL state; the      *)
(* user, the browser and the live data act at most MaxEvents times.        *)
(***************************************************************************)
SpecDialogLive ==
  /\ SpecDialog
  /\ WF_vars(Hydrate)
  /\ WF_vars(SyncEffect)
  /\ WF_vars(UrlUpdate)

\* nothing is left to run
Quiescent == isHydrated /\ ~effectDue /\ urlUpdates = << >>

\* the dialog shows exactly the game of the URL
DialogMatchesUrl ==
  /\ (selectedGame # NoGame) <=> (deepLink.gameId # NoGameId)
  /\ selectedGame # NoGame => selectedGame.matchup.id = deepLink.gameId

\* C28: once the user, navigation and live-data events have stopped, the
\* hydrated dialog eventually settles for good: no effect run and no URL
\* write is left (the effect and the closeGame it issues do not loop), and
\* selectedGame is non-null exactly when the URL carries a gameId, which is
\* then selectedGame.matchup.id.
C28_DialogSettles == <>[](Quiescent /\ DialogMatchesUrl)

\* settled, after two events, with a dialog open on the game of the URL
C28_Witness ==
  /\ nEvents = MaxEvents
  /\ Quiescent
  /\ isInitialized
  /\ selectedGame # NoGame
  /\ deepLink.gameId = selectedGame.matchup.id
  /\ lastStep.step = "effect"

====
